---- MODULE Spec2Model ----
(***************************************************************************)
(* Model of the conversation-budgeting and invocation pipeline of EraAI:   *)
(* the message shaper (AIAssistant._trim_messages and                      *)
(* LLMClient._shrink_messages), the request built by AIAssistant.chat, and *)
(* the retry loop and sliding-window limiters of LLMClient.                *)
(*                                                                         *)
(* A Turn is a record [role, src, len]: its content is the first len       *)
(* characters of the content of input Turn number src, so content[:k] is   *)
(* the same src with len cut to k, and "is a prefix of" is "same src,      *)
(* smaller or equal len".                                                  *)
(***************************************************************************)
EXTENDS Integers, Sequences, FiniteSets, TLC

VARIABLES
    config,               \* src/config.py: the Config values in force
    input,                \* shaper: the message list handed to the shaper
    shaped,               \* shaper: the list it returned
    op,                   \* shaper: "none" | "trim" | "shrink"
    now,                  \* the value time.time() returns next
    strict,               \* clock granularity: TRUE when two reads never agree
    running,              \* the coroutine holding the event loop, 0 when none
    request_timestamps,   \* LLMClient._request_timestamps
    token_timestamps,     \* LLMClient._token_timestamps, <<t, tokens>> records
    cc,                   \* per caller: the frame of its chat_completion or stream_chat call
    calls,                \* per caller: chat_completion calls issued so far
    recorded,             \* every timestamp chat_completion has recorded a request at
    last_sent,            \* the message list of the latest chat_completion send
    conversation_history, \* AIAssistant.conversation_history
    summary,              \* AIAssistant._summary, as pieces of the exchanges
    exchanges,            \* every exchange _update_summary was called with, whole
    chat,                 \* the frame of the AIAssistant.chat call in progress
    chats,                \* chat calls started so far
    result                \* what the latest chat call returned

shapeVars == <<config, input, shaped, op>>

\* what the client's steps leave alone
otherVars == <<config, input, shaped, op, conversation_history, summary, exchanges, chat,
               chats, result>>

clientVars == <<now, strict, running, request_timestamps, token_timestamps,
                cc, calls, recorded, last_sent>>

chatVars == <<conversation_history, summary, exchanges, chat, chats, result>>

vars == <<config, input, shaped, op, now, strict, running, request_timestamps,
          token_timestamps, cc, calls, recorded, last_sent,
          conversation_history, summary, exchanges, chat, chats, result>>

----------------------------------------------------------------------------
(* Bounds of the model and values the configuration is drawn from.         *)

MaxMsgs == 3

Roles == {"system", "user", "assistant"}

LenSet == {0, 100, 200, 400}

PromptCharsSet == {100, 300}

HistoryCapSet == {1, 2, 3}

\* the hard-coded length of the system prefix kept when no room is left
SYS_FLOOR == 128

----------------------------------------------------------------------------
(* Helpers: Python built-ins used by the shaper.                           *)

Max(a, b) == IF a >= b THEN a ELSE b

Min(a, b) == IF a <= b THEN a ELSE b

RECURSIVE SumLen(_)
\* sum(len(m.get("content") or "") for m in msgs)
SumLen(msgs) == IF msgs = <<>> THEN 0 ELSE Head(msgs).len + SumLen(Tail(msgs))

\* dict(msg) with content replaced by content[:k], k >= 0
Truncate(msg, k) == [msg EXCEPT !.len = Min(@, k)]

\* seq[-n:] for n >= 1
LastN(seq, n) == IF Len(seq) <= n THEN seq ELSE SubSeq(seq, Len(seq) - n + 1, Len(seq))

\* messages[0] is a system message
HasSystem(messages) == messages # <<>> /\ messages[1].role = "system"

\* messages[1:] if system_msg else messages[:]
HistoryOf(messages) == IF HasSystem(messages) THEN Tail(messages) ELSE messages

----------------------------------------------------------------------------
(* AIAssistant._trim_messages                                              *)

\* mutant: the count cap keeps the oldest Turns, history[:max_history]
TrimRecentOldest(history, cap) ==
    IF Len(history) <= Max(1, cap) THEN history ELSE SubSeq(history, 1, Max(1, cap))

\* recent_history = history[-max_history:], max_history = max(1, cap)
TrimRecent(history, cap) == LastN(history, Max(1, cap))

RECURSIVE TrimScanWhole(_, _, _, _, _)
\* mutant: the newest Turn is kept whole when it alone overflows the budget
TrimScanWhole(recent, i, used, kept, budget) ==
    IF i = 0 THEN kept
    ELSE LET msg == recent[i]
         IN IF used + msg.len <= budget
            THEN TrimScanWhole(recent, i - 1, used + msg.len, <<msg>> \o kept, budget)
            ELSE IF kept = <<>> /\ msg.len > 0 THEN <<msg>> ELSE kept

RECURSIVE TrimScanDrop(_, _, _, _, _)
\* mutant: a Turn that overflows is dropped, the newest one included
TrimScanDrop(recent, i, used, kept, budget) ==
    IF i = 0 THEN kept
    ELSE LET msg == recent[i]
         IN IF used + msg.len <= budget
            THEN TrimScanDrop(recent, i - 1, used + msg.len, <<msg>> \o kept, budget)
            ELSE kept

RECURSIVE TrimScanSkip(_, _, _, _, _)
\* mutant: a Turn that overflows is skipped and the scan goes on
TrimScanSkip(recent, i, used, kept, budget) ==
    IF i = 0 THEN kept
    ELSE LET msg == recent[i]
         IN IF used + msg.len <= budget
            THEN TrimScanSkip(recent, i - 1, used + msg.len, <<msg>> \o kept, budget)
            ELSE IF kept = <<>> /\ msg.len > 0
                 THEN <<Truncate(msg, Max(0, budget))>>
                 ELSE TrimScanSkip(recent, i - 1, used, kept, budget)

RECURSIVE TrimScan(_, _, _, _, _)
\* the loop over reversed(recent_history), i the index still to visit;
\* kept is kept_reversed already put back in chronological order
TrimScan(recent, i, used, kept, budget) ==
    IF i = 0 THEN kept
    ELSE LET msg == recent[i]
             content_len == msg.len
         IN IF used + content_len <= budget
            THEN TrimScan(recent, i - 1, used + content_len, <<msg>> \o kept, budget)
            ELSE IF kept = <<>> /\ content_len > 0
                 THEN <<Truncate(msg, Max(0, budget))>>
                 ELSE kept

\* mutant: the system message is always cut to the floor
TrimSystemAlwaysFloor(system_msg, kept_history, budget) ==
    <<Truncate(system_msg, SYS_FLOOR)>> \o kept_history

\* the system message re-attached in front of kept_history
TrimSystem(system_msg, kept_history, budget) ==
    LET remaining == Max(0, budget - SumLen(kept_history))
    IN IF system_msg.len > remaining /\ remaining > 0
       THEN <<Truncate(system_msg, remaining)>> \o kept_history
       ELSE IF remaining <= 0
            THEN <<Truncate(system_msg, SYS_FLOOR)>> \o kept_history
            ELSE <<system_msg>> \o kept_history

TrimMessages(messages, cfg) ==
    IF messages = <<>> THEN messages
    ELSE LET recent_history == TrimRecent(HistoryOf(messages), cfg.MAX_HISTORY_MESSAGES)
             budget == cfg.MAX_PROMPT_CHARS
             kept_history == TrimScan(recent_history, Len(recent_history), 0, <<>>, budget)
         IN IF HasSystem(messages)
            THEN TrimSystem(messages[1], kept_history, budget)
            ELSE kept_history

----------------------------------------------------------------------------
(* LLMClient._shrink_messages                                              *)

\* mutant: the client applies no count cap
ShrinkRecentUncapped(history, cap) == history

\* history[-max(1, config.MAX_HISTORY_MESSAGES):]
ShrinkRecent(history, cap) == LastN(history, Max(1, cap))

RECURSIVE ShrinkScan(_, _, _, _, _)
ShrinkScan(history, i, used, kept, budget) ==
    IF i = 0 THEN kept
    ELSE LET msg == history[i]
             length == msg.len
         IN IF used + length <= budget
            THEN ShrinkScan(history, i - 1, used + length, <<msg>> \o kept, budget)
            ELSE IF kept = <<>> /\ length > 0
                 THEN <<Truncate(msg, Max(0, budget))>>
                 ELSE kept

\* mutant: the system Turn is cut to half of what is left of the budget
ShrinkSystemHalved(system_msg, kept_history, budget) ==
    LET remaining == Max(0, budget - SumLen(kept_history))
    IN <<Truncate(system_msg, Min(system_msg.len, remaining) \div 2)>> \o kept_history

ShrinkSystem(system_msg, kept_history, budget) ==
    LET remaining == Max(0, budget - SumLen(kept_history))
    IN IF system_msg.len > remaining /\ remaining > 0
       THEN <<Truncate(system_msg, remaining)>> \o kept_history
       ELSE IF remaining <= 0
            THEN <<Truncate(system_msg, SYS_FLOOR)>> \o kept_history
            ELSE <<system_msg>> \o kept_history

ShrinkMessages(messages, cfg) ==
    IF messages = <<>> THEN messages
    ELSE LET history == ShrinkRecent(HistoryOf(messages), cfg.MAX_HISTORY_MESSAGES)
             budget == cfg.MAX_PROMPT_CHARS
             kept_history == ShrinkScan(history, Len(history), 0, <<>>, budget)
         IN IF HasSystem(messages)
            THEN ShrinkSystem(messages[1], kept_history, budget)
            ELSE kept_history

----------------------------------------------------------------------------
(* The shaper applied to every bounded message list.                       *)

\* every message list of at most MaxMsgs Turns; Turn i carries content i
MessageLists ==
    UNION { { [i \in 1..n |-> [role |-> r[i], src |-> i, len |-> l[i]]] :
                r \in [1..n -> Roles], l \in [1..n -> LenSet] } : n \in 0..MaxMsgs }

ShapeConfigs ==
    { [MAX_PROMPT_CHARS |-> b, MAX_HISTORY_MESSAGES |-> h] :
        b \in PromptCharsSet, h \in HistoryCapSet }

\* the client is constructed and never used
ClientUnused ==
    /\ now = 0
    /\ strict = FALSE
    /\ running = 0
    /\ request_timestamps = <<>>
    /\ token_timestamps = <<>>
    /\ cc = <<>>
    /\ calls = <<>>
    /\ recorded = <<>>
    /\ last_sent = <<>>

\* the assistant is constructed and never used
AssistantUnused ==
    /\ conversation_history = <<>>
    /\ summary = <<>>
    /\ exchanges = <<>>
    /\ chat = <<>>
    /\ chats = 0
    /\ result = <<>>

InitShape ==
    /\ config \in ShapeConfigs
    /\ input \in MessageLists
    /\ shaped = <<>>
    /\ op = "none"
    /\ ClientUnused
    /\ AssistantUnused

Trim ==
    /\ op = "none"
    /\ shaped' = TrimMessages(input, config)
    /\ op' = "trim"
    /\ UNCHANGED <<config, input>>
    /\ UNCHANGED clientVars
    /\ UNCHANGED chatVars

Shrink ==
    /\ op = "none"
    /\ shaped' = ShrinkMessages(input, config)
    /\ op' = "shrink"
    /\ UNCHANGED <<config, input>>
    /\ UNCHANGED clientVars
    /\ UNCHANGED chatVars

NextShape == Trim \/ Shrink

SpecShape == InitShape /\ [][NextShape]_vars

----------------------------------------------------------------------------
(* Properties of the shaper.                                               *)

Shaped == op # "none"

Budget == config.MAX_PROMPT_CHARS

Cap == config.MAX_HISTORY_MESSAGES

InputHistory == HistoryOf(input)

\* the part of the output after the leading system Turn of the input
ShapedHistory == IF HasSystem(input) /\ shaped # <<>> THEN Tail(shaped) ELSE shaped

Newest == InputHistory[Len(InputHistory)]

NewestAloneExceeds == InputHistory # <<>> /\ Newest.len > Budget

\* out is a subsequence of the last n Turns of hist, each Turn possibly cut
IsRecentSubSeq(out, hist, n) ==
    /\ \A i \in 1..Len(out) :
         /\ \E j \in 1..Len(hist) :
              /\ j > Len(hist) - n
              /\ out[i].src = hist[j].src
              /\ out[i].role = hist[j].role
              /\ out[i].len <= hist[j].len
    /\ \A i \in 1..(Len(out) - 1) : out[i].src < out[i + 1].src

\* C1 as stated: the content lengths of all returned Turns, the system Turn
\* included, sum to at most max_prompt_chars, unless the newest Turn alone
\* exceeds the budget, and then exactly that Turn, cut to the budget, is
\* returned.
C1_TotalWithinBudget ==
    Shaped =>
        IF NewestAloneExceeds
        THEN shaped = <<Truncate(Newest, Budget)>>
        ELSE SumLen(shaped) <= Budget

\* C1 amended: the Turns after the system Turn sum to at most
\* max_prompt_chars; the whole output exceeds the budget only when those
\* Turns use it up completely, and then by the system prefix of at most 128
\* characters; when the newest Turn alone exceeds the budget the Turns after
\* the system Turn are exactly that Turn cut to max_prompt_chars.
C1_HistoryWithinBudget ==
    Shaped =>
        /\ SumLen(ShapedHistory) <= Budget
        /\ \/ SumLen(shaped) <= Budget
           \/ /\ SumLen(ShapedHistory) = Budget
              /\ SumLen(shaped) <= Budget + SYS_FLOOR
        /\ NewestAloneExceeds => ShapedHistory = <<Truncate(Newest, Budget)>>

C1_Witness ==
    /\ Shaped
    /\ HasSystem(input)
    /\ NewestAloneExceeds
    /\ SumLen(shaped) = Budget + SYS_FLOOR

C3_Recency ==
    (Shaped /\ Len(InputHistory) > Cap) =>
        IsRecentSubSeq(ShapedHistory, InputHistory, Cap)

C3_Witness ==
    /\ Shaped
    /\ Len(InputHistory) > Cap
    /\ Len(ShapedHistory) = Cap
    /\ Cap >= 2

\* C4: the output has at most max_history_messages Turns after the system
\* Turn, and when the last max_history_messages history Turns and the system
\* content fit in max_prompt_chars together, the output is the system Turn
\* followed by those Turns, all unmodified and in order.
C4_CapAndFit ==
    Shaped =>
        /\ Len(ShapedHistory) <= Cap
        /\ LET last == LastN(InputHistory, Cap)
               sys == IF HasSystem(input) THEN <<input[1]>> ELSE <<>>
           IN SumLen(sys) + SumLen(last) <= Budget => shaped = sys \o last

C4_Witness ==
    /\ op = "trim"
    /\ HasSystem(input)
    /\ input[1].len > 0
    /\ Len(InputHistory) > Cap
    /\ SumLen(LastN(InputHistory, Cap)) > 0
    /\ input[1].len + SumLen(LastN(InputHistory, Cap)) <= Budget
    /\ shaped = <<input[1]>> \o LastN(InputHistory, Cap)

\* C5: a non-empty history leaves at least one Turn after the system Turn;
\* if the newest Turn alone exceeds max_prompt_chars that part is exactly the
\* newest Turn cut to its first max_prompt_chars characters.
C5_NewestSurvives ==
    (Shaped /\ InputHistory # <<>>) =>
        /\ ShapedHistory # <<>>
        /\ ShapedHistory[Len(ShapedHistory)].src = Newest.src
        /\ NewestAloneExceeds =>
             /\ Len(ShapedHistory) = 1
             /\ ShapedHistory[1] = [Newest EXCEPT !.len = Budget]

C5_Witness ==
    /\ Shaped
    /\ Len(InputHistory) >= 2
    /\ NewestAloneExceeds
    /\ InputHistory[1].len > 0
    /\ Len(ShapedHistory) = 1

\* the Turns of the input history that the output history stands for: its
\* last Len(ShapedHistory) Turns
KeptSuffix == LastN(InputHistory, Len(ShapedHistory))

\* the number of Turns of the input history that are not in the output
Dropped == Len(InputHistory) - Len(ShapedHistory)

\* C35: the Turns kept after the system Turn are a contiguous suffix of the
\* input history; the newest Turn that is dropped is outside the count cap
\* or would overflow the character budget, and everything older is dropped
\* with it; only the newest Turn can be cut.
C35_KeptIsSuffix ==
    (Shaped /\ InputHistory # <<>>) =>
        /\ Len(ShapedHistory) >= 1
        /\ Len(ShapedHistory) <= Len(InputHistory)
        /\ \A i \in 1..Len(ShapedHistory) :
              /\ ShapedHistory[i].src = KeptSuffix[i].src
              /\ ShapedHistory[i].role = KeptSuffix[i].role
              /\ ShapedHistory[i].len <= KeptSuffix[i].len
              /\ ShapedHistory[i].len < KeptSuffix[i].len =>
                    /\ i = Len(ShapedHistory)
                    /\ Len(ShapedHistory) = 1
        /\ Dropped > 0 =>
              \/ Len(ShapedHistory) = Max(1, Cap)
              \/ SumLen(KeptSuffix) + InputHistory[Dropped].len > Budget

\* a Turn that overflows is dropped inside the count cap, and the Turn
\* before it, which would fit, is dropped with it
C35_Witness ==
    /\ Shaped
    /\ Len(InputHistory) = 3
    /\ Cap = 3
    /\ Len(ShapedHistory) = 1
    /\ ShapedHistory[1] = Newest
    /\ InputHistory[2].len + Newest.len > Budget
    /\ InputHistory[1].len > 0
    /\ InputHistory[1].len + Newest.len <= Budget

----------------------------------------------------------------------------
(* LLMClient: the sliding-window limiters and the retry loop of            *)
(* chat_completion.  Coroutines run on one event loop: a caller holds it   *)
(* (running = c) from a resumption point to its next await that suspends,  *)
(* and only asyncio.sleep suspends; the backend send is a blocking call.   *)

MaxTime == 9

MaxCalls == 3

\* reported usage.total_tokens of a response; 0 stands for no usage reported.
\* With the token limiter off the recorded amounts are never read, and one
\* reported amount stands for all.
UsageSet == IF config.OPENAI_TPM_LIMIT > 0 THEN {0, 300} ELSE {300}

\* the message list the callers of the client pass in
ClientMessages == <<[role |-> "user", src |-> 1, len |-> 20]>>

NoError == [kind |-> "none", send |-> 0]

IdleFrame ==
    [pc |-> "idle", messages |-> <<>>, max_tokens |-> 0, attempt |-> 0,
     last_error |-> NoError, backoff |-> 0, wake |-> 0, requested |-> 0,
     outcomes |-> <<>>, sleeps |-> <<>>, error |-> NoError, tpm_ret |-> <<>>,
     functions |-> FALSE, response |-> <<>>, usage |-> 0,
     \* stream_chat: whether the frame is one, the throttles it has returned
     \* from, and the fragments it has yielded
     stream |-> FALSE, passed |-> <<>>, chunks |-> <<>>,
     \* what _throttle_if_needed and _throttle_tokens_if_needed saw at their
     \* last check in this attempt
     rpm_seen |-> <<>>, tpm_seen |-> <<>>]

\* len(response.choices[0].message.content) of a reply with content
ReplyLen == 40

\* the replies the backend can give: a function call only when tools were sent
Replies(f) ==
    {[content |-> ReplyLen, function_call |-> FALSE]} \cup
    (IF f.functions THEN {[content |-> 0, function_call |-> TRUE]} ELSE {})

RECURSIVE Pow2(_)
Pow2(n) == IF n <= 0 THEN 1 ELSE 2 * Pow2(n - 1)

\* the value the next time.time() call returns, and the clock after n calls
AfterReads(n) == IF strict THEN now + n ELSE now

CanRead == ~strict \/ now < MaxTime

\* LLMClient._estimate_message_tokens
EstimateMessageTokens(messages) ==
    IF messages = <<>> THEN 0
    ELSE Max(1, (SumLen(messages) + 20 * Len(messages)) \div 4)

\* [t for t in self._request_timestamps if t >= window_start]
RpmEvict(stamps, t) ==
    LET window_start == t - config.RPM_WINDOW_SEC
        Keep(x) == x >= window_start
    IN SelectSeq(stamps, Keep)

\* mutant: the sleep ends one second before the oldest entry leaves the window
RpmSleepForEarly(stamps, t) ==
    IF Len(stamps) >= config.OPENAI_RPM_LIMIT
    THEN Max(0, stamps[1] + config.RPM_WINDOW_SEC - 1 - t)
    ELSE 0

\* sleep_for of _throttle_if_needed, 0 when the window has room
RpmSleepFor(stamps, t) ==
    IF Len(stamps) >= config.OPENAI_RPM_LIMIT
    THEN Max(0, stamps[1] + config.RPM_WINDOW_SEC - t)
    ELSE 0

\* [(t, tok) for (t, tok) in self._token_timestamps if t >= window_start]
TpmEvict(entries, t) ==
    LET window_start == t - config.TPM_WINDOW_SEC
        Keep(e) == e[1] >= window_start
    IN SelectSeq(entries, Keep)

RECURSIVE SumTokens(_)
\* sum(tok for (_t, tok) in entries)
SumTokens(entries) ==
    IF entries = <<>> THEN 0 ELSE Head(entries)[2] + SumTokens(Tail(entries))

RECURSIVE InsertByTs(_, _)
InsertByTs(e, sorted) ==
    IF sorted = <<>> THEN <<e>>
    ELSE IF e[1] < Head(sorted)[1] THEN <<e>> \o sorted
         ELSE <<Head(sorted)>> \o InsertByTs(e, Tail(sorted))

RECURSIVE SortedByTs(_)
\* sorted(self._token_timestamps, key=lambda x: x[0]), a stable sort
SortedByTs(entries) ==
    IF entries = <<>> THEN <<>>
    ELSE InsertByTs(entries[Len(entries)], SortedByTs(SubSeq(entries, 1, Len(entries) - 1)))

\* mutant: the sleep lasts until the oldest entry leaves the window
TpmScanOldest(sorted_entries, cumulative, requested_tokens, t) ==
    IF sorted_entries = <<>> THEN 0
    ELSE Max(0, Head(sorted_entries)[1] + config.TPM_WINDOW_SEC - t)

RECURSIVE TpmScan(_, _, _, _)
\* the loop over sorted_entries; sleep_for stays 0.0 when it never breaks
TpmScan(sorted_entries, cumulative, requested_tokens, t) ==
    IF sorted_entries = <<>> THEN 0
    ELSE LET ts == Head(sorted_entries)[1]
             tok == Head(sorted_entries)[2]
             exit_time == ts + config.TPM_WINDOW_SEC
         IN IF (cumulative - tok) + requested_tokens <= config.OPENAI_TPM_LIMIT
            THEN Max(0, exit_time - t)
            ELSE TpmScan(Tail(sorted_entries), cumulative - tok, requested_tokens, t)

\* sleep_for of _throttle_tokens_if_needed over the evicted window
TpmSleepFor(entries, requested_tokens, t) ==
    LET used == SumTokens(entries)
    IN IF used + requested_tokens > config.OPENAI_TPM_LIMIT
       THEN TpmScan(SortedByTs(entries), used, requested_tokens, t)
       ELSE 0

\* requested_tokens of the token throttle for a frame
Requested(f) == EstimateMessageTokens(f.messages) + f.max_tokens

\* max(128, int(max_tokens * 0.8))
ReducedCap(max_tokens) == Max(128, (max_tokens * 8) \div 10)

SetFrame(c, f) == cc' = [cc EXCEPT ![c] = f]

\* a caller enters chat_completion (lines 48-53)
CC_Call(c) ==
    /\ running = 0
    /\ cc[c].pc \in {"idle", "returned", "raised"}
    /\ calls[c] < MaxCalls
    /\ calls' = [calls EXCEPT ![c] = @ + 1]
    /\ SetFrame(c, [IdleFrame EXCEPT !.pc = "loop",
                                     !.messages = ClientMessages,
                                     !.max_tokens = config.RESPONSE_MAX_TOKENS])
    /\ running' = c
    /\ UNCHANGED <<now, strict, request_timestamps, token_timestamps, recorded, last_sent>>
    /\ UNCHANGED otherVars

\* mutant: the loop test admits one attempt too many
LoopExhaustedLate(f) == f.attempt > config.OPENAI_RETRY_MAX_ATTEMPTS

\* not (attempt < config.OPENAI_RETRY_MAX_ATTEMPTS)
LoopExhausted(f) == f.attempt >= config.OPENAI_RETRY_MAX_ATTEMPTS

\* the loop test, _shrink_messages and _throttle_if_needed (lines 54-59, 129-131)
CC_Loop(c) ==
    /\ running = c
    /\ cc[c].pc = "loop"
    /\ LET f == cc[c]
       IN IF LoopExhausted(f)
          THEN /\ SetFrame(c, [f EXCEPT !.pc = "raised",
                                  !.error = IF f.last_error = NoError
                                            THEN [kind |-> "runtime", send |-> 0]
                                            ELSE f.last_error,
                                  !.tpm_ret = <<>>])
               /\ running' = 0
               /\ UNCHANGED <<now, request_timestamps>>
          ELSE LET msgs == ShrinkMessages(f.messages, config)
               IN IF config.OPENAI_RPM_LIMIT <= 0
                  THEN /\ SetFrame(c, [f EXCEPT !.pc = "tpm_check", !.messages = msgs,
                                                !.tpm_ret = <<>>])
                       /\ UNCHANGED <<now, running, request_timestamps>>
                  ELSE LET kept == RpmEvict(request_timestamps, now)
                           sleep_for == RpmSleepFor(kept, now)
                       IN /\ CanRead
                          /\ now' = AfterReads(1)
                          /\ request_timestamps' = kept
                          /\ IF sleep_for > 0
                             THEN /\ SetFrame(c, [f EXCEPT !.pc = "rpm_wait",
                                                     !.messages = msgs,
                                                     !.wake = now + sleep_for,
                                                     !.tpm_ret = <<>>,
                                                     !.rpm_seen = [kept |-> kept, slept |-> TRUE]])
                                  /\ running' = 0
                             ELSE /\ SetFrame(c, [f EXCEPT !.pc = "tpm_check",
                                                     !.messages = msgs,
                                                     !.tpm_ret = <<>>,
                                                     !.rpm_seen = [kept |-> kept, slept |-> FALSE]])
                                  /\ UNCHANGED running
    /\ UNCHANGED <<strict, token_timestamps, calls, recorded, last_sent>>
    /\ UNCHANGED otherVars

\* asyncio.sleep(sleep_for) of _throttle_if_needed returns (line 306)
CC_RpmWake(c) ==
    /\ running = 0
    /\ cc[c].pc = "rpm_wait"
    /\ now >= cc[c].wake
    /\ SetFrame(c, [cc[c] EXCEPT !.pc = "tpm_check"])
    /\ running' = c
    /\ UNCHANGED <<now, strict, request_timestamps, token_timestamps, calls, recorded, last_sent>>
    /\ UNCHANGED otherVars

\* _throttle_tokens_if_needed: next is the pc it returns to, wait the pc it
\* sleeps in; after_sleep is the backoff sleep that follows the return at
\* line 125, 0 at line 60
TokenThrottle(c, next, wait, after_sleep) ==
    LET f == cc[c]
        requested_tokens == Requested(f)
    IN IF config.OPENAI_TPM_LIMIT <= 0
       THEN /\ SetFrame(c, [f EXCEPT !.pc = next, !.requested = requested_tokens,
                               !.wake = now + after_sleep,
                               !.tpm_ret = [at |-> now, req |-> requested_tokens]])
            /\ UNCHANGED <<now, token_timestamps>>
            /\ running' = IF next = "backoff_wait" THEN 0 ELSE running
       ELSE LET kept == TpmEvict(token_timestamps, now)
                sleep_for == TpmSleepFor(kept, requested_tokens, now)
            IN /\ CanRead
               /\ now' = AfterReads(1)
               /\ token_timestamps' = kept
               /\ IF sleep_for > 0
                  THEN /\ SetFrame(c, [f EXCEPT !.pc = wait,
                                          !.requested = requested_tokens,
                                          !.wake = now + sleep_for,
                                          !.tpm_seen = [kept |-> kept, slept |-> TRUE]])
                       /\ running' = 0
                  ELSE /\ SetFrame(c, [f EXCEPT !.pc = next,
                                          !.requested = requested_tokens,
                                          !.wake = now' + after_sleep,
                                          !.tpm_ret = [at |-> now', req |-> requested_tokens],
                                          !.tpm_seen = [kept |-> kept, slept |-> FALSE]])
                       /\ running' = IF next = "backoff_wait" THEN 0 ELSE running

\* the token throttle before the send (lines 60-62)
CC_TpmCheck(c) ==
    /\ running = c
    /\ cc[c].pc = "tpm_check"
    /\ TokenThrottle(c, "send", "tpm_wait", 0)
    /\ UNCHANGED <<strict, request_timestamps, calls, recorded, last_sent>>
    /\ UNCHANGED otherVars

\* asyncio.sleep(sleep_for) of the token throttle before the send returns
CC_TpmWake(c) ==
    /\ running = 0
    /\ cc[c].pc = "tpm_wait"
    /\ now >= cc[c].wake
    /\ SetFrame(c, [cc[c] EXCEPT !.pc = "send",
                       !.tpm_ret = [at |-> now, req |-> cc[c].requested]])
    /\ running' = c
    /\ UNCHANGED <<now, strict, request_timestamps, token_timestamps, calls, recorded, last_sent>>
    /\ UNCHANGED otherVars

\* mutant: the delay grows linearly
BackoffLinear(attempt) == config.OPENAI_RETRY_BASE_DELAY_SEC * attempt

\* backoff = config.OPENAI_RETRY_BASE_DELAY_SEC * (2 ** (attempt - 1)) (line 116)
Backoff(attempt) == config.OPENAI_RETRY_BASE_DELAY_SEC * Pow2(attempt - 1)

\* mutant: a capacity error is not retried
OnCapacityRaise(f, n) ==
    [f EXCEPT !.pc = "raised",
              !.outcomes = Append(@, "capacity"),
              !.error = [kind |-> "capacity", send |-> n],
              !.tpm_ret = <<>>]

\* the except branch for a capacity-classified error (lines 113-120)
OnCapacity(f, n) ==
    [f EXCEPT !.pc = "x_tpm_check",
              !.outcomes = Append(@, "capacity"),
              !.attempt = @ + 1,
              !.last_error = [kind |-> "capacity", send |-> n],
              !.backoff = Backoff(f.attempt + 1),
              !.max_tokens = ReducedCap(@),
              !.messages = ShrinkMessages(@, config),
              !.tpm_ret = <<>>]

\* mutant: any other error is retried like a capacity error
OnOtherRetry(f, n) ==
    [f EXCEPT !.pc = "x_tpm_check",
              !.outcomes = Append(@, "other"),
              !.attempt = @ + 1,
              !.last_error = [kind |-> "other", send |-> n],
              !.backoff = Backoff(f.attempt + 1),
              !.tpm_ret = <<>>]

\* the except branch for any other error: log and raise (lines 127-128)
OnOther(f, n) ==
    [f EXCEPT !.pc = "raised",
              !.outcomes = Append(@, "other"),
              !.error = [kind |-> "other", send |-> n],
              !.tpm_ret = <<>>]

\* mutant: without reported usage only the response cap is recorded
TokensUsedCapOnly(usage, f) == IF usage > 0 THEN usage ELSE f.max_tokens

\* total_tokens_used: response.usage.total_tokens, or without usage the
\* estimate for the messages plus the response cap (lines 84-87)
TokensUsed(usage, f) == IF usage > 0 THEN usage ELSE Requested(f)

\* the blocking send and what follows it without suspending (lines 63-128)
CC_Send(c) ==
    /\ running = c
    /\ cc[c].pc = "send"
    /\ last_sent' = cc[c].messages
    /\ LET f == [cc[c] EXCEPT !.rpm_seen = <<>>, !.tpm_seen = <<>>]
           n == Len(f.outcomes) + 1
       IN \/ \E usage \in UsageSet, reply \in Replies(f) :
               \* success: _record_request, _record_tokens, return
               LET tokens == TokensUsed(usage, f)
               IN /\ CanRead
                  /\ request_timestamps' = Append(request_timestamps, now)
                  /\ recorded' = Append(recorded, now)
                  /\ token_timestamps' = Append(token_timestamps, <<AfterReads(1), tokens>>)
                  /\ now' = AfterReads(2)
                  /\ SetFrame(c, [f EXCEPT !.pc = "returned",
                                     !.outcomes = Append(@, "ok"),
                                     !.response = reply,
                                     !.usage = usage,
                                     !.tpm_ret = <<>>])
                  /\ running' = 0
          \/ \* a capacity-classified error
             /\ SetFrame(c, OnCapacity(f, n))
             /\ UNCHANGED <<now, running, request_timestamps, token_timestamps, recorded>>
          \/ \* any other error: raise
             /\ SetFrame(c, OnOther(f, n))
             /\ running' = 0
             /\ UNCHANGED <<now, request_timestamps, token_timestamps, recorded>>
    /\ UNCHANGED <<strict, calls>>
    /\ UNCHANGED otherVars

\* the token throttle of the except branch, then asyncio.sleep(backoff)
\* (lines 122-126)
CC_XTpmCheck(c) ==
    /\ running = c
    /\ cc[c].pc = "x_tpm_check"
    /\ TokenThrottle(c, "backoff_wait", "x_tpm_wait", cc[c].backoff)
    /\ UNCHANGED <<strict, request_timestamps, calls, recorded, last_sent>>
    /\ UNCHANGED otherVars

\* the sleep of the except branch's token throttle returns; the backoff
\* sleep starts at once
CC_XTpmWake(c) ==
    /\ running = 0
    /\ cc[c].pc = "x_tpm_wait"
    /\ now >= cc[c].wake
    /\ SetFrame(c, [cc[c] EXCEPT !.pc = "backoff_wait",
                       !.wake = now + cc[c].backoff,
                       !.tpm_ret = [at |-> now, req |-> cc[c].requested]])
    /\ UNCHANGED <<now, strict, running, request_timestamps, token_timestamps,
                   calls, recorded, last_sent>>
    /\ UNCHANGED otherVars

\* asyncio.sleep(backoff) returns; continue (lines 125-126)
CC_BackoffWake(c) ==
    /\ running = 0
    /\ cc[c].pc = "backoff_wait"
    /\ now >= cc[c].wake
    /\ SetFrame(c, [cc[c] EXCEPT !.pc = "loop", !.sleeps = Append(@, cc[c].backoff),
                                 !.tpm_ret = <<>>, !.tpm_seen = <<>>])
    /\ running' = c
    /\ UNCHANGED <<now, strict, request_timestamps, token_timestamps, calls, recorded, last_sent>>
    /\ UNCHANGED otherVars

----------------------------------------------------------------------------
(* LLMClient.stream_chat                                                    *)

\* a caller enters stream_chat (lines 208-223)
StreamFrame(messages) ==
    [IdleFrame EXCEPT !.pc = "s_start", !.stream = TRUE, !.messages = messages,
                      !.max_tokens = config.RESPONSE_MAX_TOKENS]

\* _shrink_messages and _throttle_if_needed (lines 225-226)
SC_Start(c) ==
    /\ running = c
    /\ cc[c].pc = "s_start"
    /\ LET f == cc[c]
           trimmed == ShrinkMessages(f.messages, config)
       IN IF config.OPENAI_RPM_LIMIT <= 0
          THEN /\ SetFrame(c, [f EXCEPT !.pc = "s_tpm_check", !.messages = trimmed,
                                        !.passed = Append(@, "rpm")])
               /\ UNCHANGED <<now, running, request_timestamps>>
          ELSE LET kept == RpmEvict(request_timestamps, now)
                   sleep_for == RpmSleepFor(kept, now)
               IN /\ CanRead
                  /\ now' = AfterReads(1)
                  /\ request_timestamps' = kept
                  /\ IF sleep_for > 0
                     THEN /\ SetFrame(c, [f EXCEPT !.pc = "s_rpm_wait",
                                             !.messages = trimmed,
                                             !.wake = now + sleep_for])
                          /\ running' = 0
                     ELSE /\ SetFrame(c, [f EXCEPT !.pc = "s_tpm_check",
                                             !.messages = trimmed,
                                             !.passed = Append(@, "rpm")])
                          /\ UNCHANGED running
    /\ UNCHANGED <<strict, token_timestamps, calls, recorded, last_sent>>
    /\ UNCHANGED otherVars

\* asyncio.sleep(sleep_for) of _throttle_if_needed returns (line 306)
SC_RpmWake(c) ==
    /\ running = 0
    /\ cc[c].pc = "s_rpm_wait"
    /\ now >= cc[c].wake
    /\ SetFrame(c, [cc[c] EXCEPT !.pc = "s_tpm_check", !.passed = Append(@, "rpm")])
    /\ running' = c
    /\ UNCHANGED <<now, strict, request_timestamps, token_timestamps, calls, recorded, last_sent>>
    /\ UNCHANGED otherVars

\* _throttle_tokens_if_needed (lines 227-229)
SC_TpmCheck(c) ==
    /\ running = c
    /\ cc[c].pc = "s_tpm_check"
    /\ TokenThrottle(c, "s_open", "s_tpm_wait", 0)
    /\ UNCHANGED <<strict, request_timestamps, calls, recorded, last_sent>>
    /\ UNCHANGED otherVars

\* asyncio.sleep(sleep_for) of the token throttle returns (line 338)
SC_TpmWake(c) ==
    /\ running = 0
    /\ cc[c].pc = "s_tpm_wait"
    /\ now >= cc[c].wake
    /\ SetFrame(c, [cc[c] EXCEPT !.pc = "s_open",
                       !.tpm_ret = [at |-> now, req |-> cc[c].requested]])
    /\ running' = c
    /\ UNCHANGED <<now, strict, request_timestamps, token_timestamps, calls, recorded, last_sent>>
    /\ UNCHANGED otherVars

\* mutant: a request that fails is issued again
StreamFailedRetried(f, n) ==
    [f EXCEPT !.pc = "s_open",
              !.outcomes = Append(@, "failed"),
              !.last_error = [kind |-> "stream", send |-> n]]

\* the except branch of stream_chat: log and raise (lines 245-247)
StreamFailed(f, n) ==
    [f EXCEPT !.pc = "raised",
              !.error = [kind |-> "stream", send |-> n]]

\* the request that opens the stream, and the two records (lines 230-241)
SC_Open(c) ==
    /\ running = c
    /\ cc[c].pc = "s_open"
    /\ LET f == [cc[c] EXCEPT !.tpm_seen = <<>>]
           n == Len(f.outcomes) + 1
       IN \/ /\ CanRead
             /\ request_timestamps' = Append(request_timestamps, now)
             /\ token_timestamps' =
                   Append(token_timestamps,
                          <<AfterReads(1),
                            EstimateMessageTokens(f.messages) + config.RESPONSE_MAX_TOKENS>>)
             /\ now' = AfterReads(2)
             /\ SetFrame(c, [f EXCEPT !.pc = "streaming",
                                      !.outcomes = Append(@, "opened")])
             /\ running' = 0
          \/ \* create raises
             /\ SetFrame(c, StreamFailed([f EXCEPT !.outcomes = Append(@, "failed")], n))
             /\ running' = 0
             /\ UNCHANGED <<now, request_timestamps, token_timestamps>>
    /\ UNCHANGED <<strict, calls, recorded, last_sent>>
    /\ UNCHANGED otherVars

\* fragments a stream carries at most
MaxChunks == 2

\* len(chunk.choices[0].delta.content) of the k-th chunk with content that
\* the backend sends: fragments of different lengths
FragmentLenSet(k) == {2 * k + 1}

\* the k-th fragment the generator yields
Fragment(k, l) == [n |-> k, len |-> l]

\* the frame suspended at "yield chunk.choices[0].delta.content" (line 244)
StreamYield(f, l) ==
    [f EXCEPT !.pc = "yielded", !.chunks = Append(@, Fragment(Len(f.chunks) + 1, l))]

\* "for chunk in stream" when the next chunk is not one to yield: its
\* content is None, the stream has ended, or reading it raises (lines 242-247)
SC_Next(c) ==
    /\ running = 0
    /\ cc[c].pc = "streaming"
    /\ LET f == cc[c]
       IN \/ \* delta.content is None: nothing is yielded
             SetFrame(c, f)
          \/ SetFrame(c, [f EXCEPT !.pc = "returned"])
          \/ SetFrame(c, StreamFailed(f, Len(f.outcomes)))
    /\ UNCHANGED <<now, strict, running, request_timestamps, token_timestamps,
                   calls, recorded, last_sent>>
    /\ UNCHANGED otherVars

----------------------------------------------------------------------------

\* time passes
Tick ==
    /\ now < MaxTime
    /\ now' = now + 1
    /\ UNCHANGED <<strict, running, request_timestamps, token_timestamps, cc,
                   calls, recorded, last_sent>>
    /\ UNCHANGED otherVars

\* the limiter and retry settings the client is run under
ClientConfigs ==
    { [MAX_PROMPT_CHARS |-> 300, MAX_HISTORY_MESSAGES |-> 2,
       RESPONSE_MAX_TOKENS |-> m,
       OPENAI_RETRY_MAX_ATTEMPTS |-> a, OPENAI_RETRY_BASE_DELAY_SEC |-> 1,
       OPENAI_RPM_LIMIT |-> l[1], RPM_WINDOW_SEC |-> 3,
       OPENAI_TPM_LIMIT |-> l[2], TPM_WINDOW_SEC |-> 3] :
        a \in {1, 3}, m \in {100, 600},
        l \in {<<1, 0>>, <<2, 0>>, <<0, 500>>, <<0, 700>>} }

InitClientWith(callers, granularities) ==
    /\ config \in ClientConfigs
    /\ input = <<>>
    /\ shaped = <<>>
    /\ op = "none"
    /\ now = 0
    /\ strict \in granularities
    /\ running = 0
    /\ request_timestamps = <<>>
    /\ token_timestamps = <<>>
    /\ cc = [c \in callers |-> IdleFrame]
    /\ calls = [c \in callers |-> 0]
    /\ recorded = <<>>
    /\ last_sent = <<>>
    /\ AssistantUnused

\* one caller issuing chat_completion calls back to back
InitClient == InitClientWith({1}, BOOLEAN)

NextClient ==
    \/ \E c \in DOMAIN cc : CC_Call(c)
    \/ \E c \in DOMAIN cc : CC_Loop(c)
    \/ \E c \in DOMAIN cc : CC_RpmWake(c)
    \/ \E c \in DOMAIN cc : CC_TpmCheck(c)
    \/ \E c \in DOMAIN cc : CC_TpmWake(c)
    \/ \E c \in DOMAIN cc : CC_Send(c)
    \/ \E c \in DOMAIN cc : CC_XTpmCheck(c)
    \/ \E c \in DOMAIN cc : CC_XTpmWake(c)
    \/ \E c \in DOMAIN cc : CC_BackoffWake(c)
    \/ Tick

SpecClient == InitClient /\ [][NextClient]_vars

\* two callers in flight on the same client, on a clock fine enough that no
\* two reads agree
InitClientConc ==
    /\ InitClientWith({1, 2}, {TRUE})
    /\ config.OPENAI_RETRY_MAX_ATTEMPTS = 1
    /\ config.OPENAI_RPM_LIMIT \in {0, 1}

SpecClientConc == InitClientConc /\ [][NextClient]_vars

----------------------------------------------------------------------------
(* Properties of the limiters and the retry loop.                          *)

\* the requests recorded in the window of length RPM_WINDOW_SEC opening at t
InRpmWindow(t) ==
    { j \in 1..Len(recorded) : recorded[j] >= t /\ recorded[j] < t + config.RPM_WINDOW_SEC }

\* no window of length rpm_window holds more than rpm_limit recorded requests
RpmWindowSafe ==
    config.OPENAI_RPM_LIMIT > 0 =>
        \A i \in 1..Len(recorded) :
            Cardinality(InRpmWindow(recorded[i])) <= config.OPENAI_RPM_LIMIT

\* C7: with rpm_limit = N > 0 and one caller issuing calls back to back, at
\* any clock granularity, no interval of length rpm_window contains more
\* than N recorded request timestamps.
C7_BurstWithinLimit == (DOMAIN cc = {1}) => RpmWindowSafe

\* C8: with two callers in flight on the same client, interleaving at their
\* sleeps, the requests recorded within any rpm_window never exceed
\* rpm_limit.
C8_ConcurrentWithinLimit == (DOMAIN cc = {1, 2}) => RpmWindowSafe

\* the token weights still inside the tpm window at time t
TokensInWindow(t) ==
    LET Inside(e) == e[1] > t - config.TPM_WINDOW_SEC
    IN SumTokens(SelectSeq(token_timestamps, Inside))

\* C9: with tpm_limit > 0, when _throttle_tokens_if_needed(requested_tokens)
\* returns, the weights still inside the tpm window plus requested_tokens do
\* not exceed tpm_limit.
C9_TokenThrottleAdmits ==
    config.OPENAI_TPM_LIMIT > 0 =>
        \A c \in DOMAIN cc :
            cc[c].tpm_ret # <<>> =>
                TokensInWindow(cc[c].tpm_ret.at) + cc[c].tpm_ret.req
                    <= config.OPENAI_TPM_LIMIT

AllCapacity(outcomes) == \A i \in 1..Len(outcomes) : outcomes[i] = "capacity"

\* C10: a chat_completion call never issues more than retry_max_attempts
\* sends, and when every send raised a capacity-classified error the call
\* ends after exactly retry_max_attempts sends, raising the error of the
\* last send.
C10_RetriesExhausted ==
    \A c \in DOMAIN cc :
        /\ Len(cc[c].outcomes) <= config.OPENAI_RETRY_MAX_ATTEMPTS
        /\ (cc[c].pc \in {"returned", "raised"} /\ AllCapacity(cc[c].outcomes)) =>
              /\ cc[c].pc = "raised"
              /\ Len(cc[c].outcomes) = config.OPENAI_RETRY_MAX_ATTEMPTS
              /\ cc[c].error = [kind |-> "capacity", send |-> Len(cc[c].outcomes)]

C10_Witness ==
    \E c \in DOMAIN cc :
        /\ config.OPENAI_RETRY_MAX_ATTEMPTS = 3
        /\ cc[c].pc = "raised"
        /\ cc[c].outcomes = <<"capacity", "capacity", "capacity">>

\* the number of capacity-classified failures among the sends so far
Failures(outcomes) ==
    Cardinality({i \in 1..Len(outcomes) : outcomes[i] = "capacity"})

\* C11: within one chat_completion call the backoff sleep after the k-th
\* failed attempt lasts retry_base_delay * 2^(k-1), and each sleep is
\* strictly longer than the one before it (retry_base_delay > 0).
C11_BackoffDoubles ==
    \A c \in DOMAIN cc :
        LET f == cc[c]
        IN /\ \A k \in 1..Len(f.sleeps) :
                 /\ f.sleeps[k] = config.OPENAI_RETRY_BASE_DELAY_SEC * Pow2(k - 1)
                 /\ k > 1 => f.sleeps[k] > f.sleeps[k - 1]
           /\ f.pc \in {"x_tpm_check", "x_tpm_wait", "backoff_wait"} =>
                 /\ Len(f.sleeps) = Failures(f.outcomes) - 1
                 /\ f.backoff = config.OPENAI_RETRY_BASE_DELAY_SEC
                                    * Pow2(Failures(f.outcomes) - 1)
           /\ f.pc = "backoff_wait" => f.wake <= now + f.backoff

C11_Witness ==
    \E c \in DOMAIN cc :
        /\ config.OPENAI_RETRY_BASE_DELAY_SEC > 0
        /\ cc[c].outcomes = <<"capacity", "capacity", "capacity">>
        /\ cc[c].sleeps = <<1, 2, 4>>

\* C12: a send that raises an error that is not capacity-classified ends
\* the call at once with that error: it is the call's last send, and no
\* backoff sleep follows it, on the first attempt and after retries alike.
C12_OtherErrorRaisedAtOnce ==
    \A c \in DOMAIN cc :
        LET f == cc[c]
        IN \A i \in 1..Len(f.outcomes) :
              f.outcomes[i] = "other" =>
                 /\ i = Len(f.outcomes)
                 /\ f.pc = "raised"
                 /\ f.error = [kind |-> "other", send |-> i]
                 /\ Len(f.sleeps) = i - 1

C12_Witness ==
    \E c \in DOMAIN cc :
        /\ cc[c].pc = "raised"
        /\ cc[c].outcomes = <<"capacity", "other">>
        /\ cc[c].sleeps = <<1>>

\* C13: across the attempts of one chat_completion call the response cap
\* never exceeds the cap the call started with, whatever that cap is.
C13_CapNeverAboveInitial ==
    \A c \in DOMAIN cc :
        cc[c].pc # "idle" => cc[c].max_tokens <= config.RESPONSE_MAX_TOKENS

----------------------------------------------------------------------------
(* AIAssistant.chat: one call at a time on one assistant, the limiters     *)
(* disabled as in the default configuration.  The call is caller 1 of the  *)
(* client; it suspends where it awaits a collaborator or the client.       *)

MaxChats == 2

\* len(russian_instruction) and len(suppress) of _build_system_prompt
RUSSIAN_INSTRUCTION_LEN == 839

SUPPRESS_LEN == 67

\* len("Running summary of prior conversation (for context preservation):\n")
SUMMARY_HEADER_LEN == 66

\* len("Context:\n") + len("\n\nUser question: ")
CONTEXT_WRAP_LEN == 26

\* len(translation_prompt) around the text of _translate_to_english
TRANSLATION_PROMPT_LEN == 377

\* max_len of _update_summary
MAX_SUMMARY_CHARS == 1200

\* len("User: ") + len("\nAssistant: ") + len("\n")
EXCHANGE_WRAP_LEN == 19

\* len(user_message) of the calls
UserLenSet == {10, 1500}

\* len of what rag_system.get_relevant_context returns, 0 for "" (no
\* passages or a caught retrieval failure)
ContextLenSet == {0, 500}

\* len(json.dumps(function_result["result"]))
FunctionResultLen == 30

\* A text made of pieces of the encoded exchanges is a sequence of segments
\* [ex, from, to]: the characters from (inclusive) to to (exclusive) of the
\* exchange encoded by chat call ex.
SegLen(seg) == seg.to - seg.from

RECURSIVE SegsLen(_)
SegsLen(segs) == IF segs = <<>> THEN 0 ELSE SegLen(Head(segs)) + SegsLen(Tail(segs))

\* text[:n]
RECURSIVE TakeFirst(_, _)
TakeFirst(segs, n) ==
    IF n <= 0 \/ segs = <<>> THEN <<>>
    ELSE IF SegLen(Head(segs)) >= n
         THEN <<[Head(segs) EXCEPT !.to = Head(segs).from + n]>>
         ELSE <<Head(segs)>> \o TakeFirst(Tail(segs), n - SegLen(Head(segs)))

\* text[-n:] for n > 0
RECURSIVE TakeLast(_, _)
TakeLast(segs, n) ==
    IF n <= 0 \/ segs = <<>> THEN <<>>
    ELSE LET last == segs[Len(segs)]
             front == SubSeq(segs, 1, Len(segs) - 1)
         IN IF SegLen(last) >= n
            THEN <<[last EXCEPT !.from = last.to - n]>>
            ELSE TakeLast(front, n - SegLen(last)) \o <<last>>

\* content ids: contents written during chat call k are 10 * k + kind
Src(k, kind) == 10 * k + kind

\* AIAssistant._build_system_prompt, by length
BuildSystemPromptLen(history) ==
    LET base == config.SYSTEM_PROMPT
    IN IF Len(history) >= 2
       THEN IF base > 0
            THEN RUSSIAN_INSTRUCTION_LEN + 1 + base + 2 + SUPPRESS_LEN
            ELSE RUSSIAN_INSTRUCTION_LEN + 1 + SUPPRESS_LEN
       ELSE IF base > 0
            THEN RUSSIAN_INSTRUCTION_LEN + 1 + base
            ELSE RUSSIAN_INSTRUCTION_LEN

IdleChat ==
    [pc |-> "idle", user |-> 0, use_rag |-> FALSE, use_functions |-> FALSE,
     translate |-> FALSE, messages |-> <<>>, context |-> 0, response |-> <<>>,
     \* the piece of the retrieved blocks that context is
     cut |-> [from |-> 0, to |-> 0],
     \* what the call has done so far: the collaborators that failed, the
     \* state it was entered with, its chat_completion calls and dispatches
     failed |-> {}, before |-> <<>>, before_summary |-> <<>>,
     invocations |-> <<>>, replies |-> <<>>, dispatches |-> 0,
     \* stream_chat: the fragments concatenated so far and those handed on
     full_response |-> <<>>, yielded |-> <<>>]

\* mutant: the summary Turn is appended after the user Turn
WithSummaryAppended(messages, k) ==
    IF summary # <<>>
    THEN Append(messages,
                [role |-> "system", src |-> Src(k, 6), len |-> SUMMARY_HEADER_LEN + SegsLen(summary)])
    ELSE messages

\* messages.insert(1, summary Turn) when self._summary is non-empty (lines 75-76)
WithSummary(messages, k) ==
    IF summary # <<>>
    THEN <<messages[1],
           [role |-> "system", src |-> Src(k, 6), len |-> SUMMARY_HEADER_LEN + SegsLen(summary)]>>
         \o Tail(messages)
    ELSE messages

\* the frame of a chat_completion call entered from chat
Completion(messages, functions) ==
    [IdleFrame EXCEPT !.pc = "loop", !.messages = messages,
                      !.max_tokens = config.RESPONSE_MAX_TOKENS,
                      !.functions = functions]

\* lines 74-95: inject the summary, trim, and enter the first invocation
ShapeAndInvoke(frame, messages, k) ==
    LET trimmed == TrimMessages(WithSummary(messages, k), config)
    IN /\ chat' = [frame EXCEPT !.pc = "invoke1", !.messages = trimmed,
                                 !.invocations =
                                    Append(@, [functions |-> frame.use_functions,
                                               messages |-> trimmed])]
       /\ cc' = [cc EXCEPT ![1] = Completion(trimmed, frame.use_functions)]
       /\ running' = 1

\* mutant: the except branch returns a result without the error field
ChatErrorSilent(frame, why) ==
    /\ result' = [error |-> FALSE, response |-> [apology |-> TRUE, src |-> 0, len |-> 0],
                  call |-> [frame EXCEPT !.failed = @ \cup {why}]]
    /\ chat' = IdleChat

\* the except branch of chat (lines 151-156)
ChatError(frame, why) ==
    /\ result' = [error |-> TRUE, response |-> [apology |-> TRUE, src |-> 0, len |-> 0],
                  call |-> [frame EXCEPT !.failed = @ \cup {why}]]
    /\ chat' = IdleChat

\* chat is called: lines 36-56, and on to the first await
ChatBegin ==
    /\ chat.pc = "idle"
    /\ running = 0
    /\ chats < MaxChats
    /\ chats' = chats + 1
    /\ \E u \in UserLenSet, use_rag \in BOOLEAN, use_functions \in BOOLEAN,
          translate \in BOOLEAN, init_ok \in BOOLEAN :
        LET user_turn == [role |-> "user", src |-> Src(chats + 1, 1), len |-> u]
            frame == [IdleChat EXCEPT !.user = u, !.use_rag = use_rag,
                                      !.use_functions = use_functions,
                                      !.translate = translate,
                                      !.before = conversation_history,
                                      !.before_summary = summary]
        IN IF use_functions /\ ~init_ok
           THEN \* _ensure_function_caller raises
                /\ ChatError(frame, "init")
                /\ UNCHANGED <<conversation_history, cc, running>>
           ELSE /\ (~use_functions => init_ok)
                /\ (~use_rag => ~translate)
                /\ conversation_history' = Append(conversation_history, user_turn)
                /\ LET history_now == Append(conversation_history, user_turn)
                       \* _build_system_prompt reads the history after the append
                       system_len == BuildSystemPromptLen(history_now)
                       messages == <<[role |-> "system", src |-> 0, len |-> system_len]>>
                                   \o history_now
                   IN IF translate
                      THEN \* _translate_to_english enters chat_completion
                           /\ chat' = [frame EXCEPT !.pc = "translate", !.messages = messages]
                           /\ cc' = [cc EXCEPT ![1] =
                                       Completion(<<[role |-> "user", src |-> Src(chats + 1, 7),
                                                     len |-> TRANSLATION_PROMPT_LEN + u]>>, FALSE)]
                           /\ running' = 1
                      ELSE IF use_rag
                           THEN /\ chat' = [frame EXCEPT !.pc = "rag", !.messages = messages]
                                /\ UNCHANGED <<cc, running>>
                           ELSE ShapeAndInvoke(frame, messages, chats + 1)
                \* the previous call's return value is gone
                /\ result' = <<>>
    /\ UNCHANGED <<summary, exchanges>>
    /\ UNCHANGED <<config, input, shaped, op, now, strict, request_timestamps,
                   token_timestamps, calls, recorded, last_sent>>

\* the translation call returned or raised (caught, lines 225-227); the
\* retrieval call is awaited next
ChatTranslated ==
    /\ chat.pc = "translate"
    /\ running = 0
    /\ cc[1].pc \in {"returned", "raised"}
    /\ chat' = [chat EXCEPT !.pc = "rag",
                            !.failed = IF cc[1].pc = "raised"
                                       THEN @ \cup {"translation"} ELSE @]
    /\ UNCHANGED <<conversation_history, summary, exchanges, chats, result>>
    /\ UNCHANGED <<config, input, shaped, op>>
    \* the finished call's locals are gone
    /\ cc' = [cc EXCEPT ![1] = IdleFrame]
    /\ UNCHANGED <<now, strict, running, request_timestamps, token_timestamps,
                   calls, recorded, last_sent>>

\* mutant: the cut keeps the end of the blocks, context[-cap:]
ContextCutTail(ctx) ==
    [from |-> ctx - Min(ctx, config.RAG_CONTEXT_MAX_CHARS), to |-> ctx]

\* "\n\n".join(context_parts) of ctx characters, cut to
\* context[:config.RAG_CONTEXT_MAX_CHARS] when longer (rag_system.py 180-183):
\* the characters from (inclusive) to to (exclusive) of the joined blocks
ContextCut(ctx) ==
    [from |-> 0, to |-> Min(ctx, config.RAG_CONTEXT_MAX_CHARS)]

\* mutant: the passages found before the failure are used all the same
RetrievedContextKept(retrieved, ctx) == Min(ctx, config.RAG_CONTEXT_MAX_CHARS)

\* what chat holds as context after get_relevant_context: its result cut to
\* RAG_CONTEXT_MAX_CHARS, or "" when retrieval raised (rag_system.py 187-189)
RetrievedContext(retrieved, ctx) ==
    IF retrieved THEN Min(ctx, config.RAG_CONTEXT_MAX_CHARS) ELSE 0

\* get_relevant_context returned: lines 66-95
ChatRag ==
    /\ chat.pc = "rag"
    /\ running = 0
    /\ \E ctx \in ContextLenSet, retrieved \in BOOLEAN :
        \* a retrieval failure is caught in get_relevant_context, which
        \* then returns ""
        LET context == RetrievedContext(retrieved, ctx)
            frame == [chat EXCEPT !.context = context,
                                  !.cut = IF retrieved THEN ContextCut(ctx) ELSE ContextCut(0),
                                  !.failed = IF retrieved THEN @ ELSE @ \cup {"retrieval"}]
            n == Len(chat.messages)
            enhanced == [role |-> "user", src |-> Src(chats, 2),
                         len |-> CONTEXT_WRAP_LEN + context + chat.user]
            \* messages is a shallow copy: its last dict is the dict appended
            \* to conversation_history, so the assignment changes both
            messages == IF context > 0
                        THEN [chat.messages EXCEPT ![n] = enhanced]
                        ELSE chat.messages
        IN /\ conversation_history' =
                 IF context > 0
                 THEN [conversation_history EXCEPT ![Len(conversation_history)] = enhanced]
                 ELSE conversation_history
           /\ ShapeAndInvoke(frame, messages, chats)
    /\ UNCHANGED <<summary, exchanges, chats, result>>
    /\ UNCHANGED <<config, input, shaped, op, now, strict, request_timestamps,
                   token_timestamps, calls, recorded, last_sent>>

\* addition = f"User: {user}\nAssistant: {assistant}\n" of call k, whole
Addition(k, user, assistant) ==
    [ex |-> k, from |-> 0, to |-> EXCHANGE_WRAP_LEN + user + assistant]

\* mutant: the addition is appended and nothing is cut
UpdateSummaryUncut(old, k, user, assistant) == old \o <<Addition(k, user, assistant)>>

\* AIAssistant._update_summary
UpdateSummary(old, k, user, assistant) ==
    LET addition == <<Addition(k, user, assistant)>>
    IN IF old = <<>>
       THEN TakeFirst(addition, MAX_SUMMARY_CHARS)
       ELSE TakeLast(old \o addition, MAX_SUMMARY_CHARS)

\* mutant: the message list of the request replaces the history
StoredHistoryRequest(history, messages, turn) == Append(messages, turn)

\* conversation_history after self.conversation_history.append (lines
\* 136-139): messages is a copy (line 46) and _trim_messages returns a new
\* list, so what was inserted into or appended to messages is not in it
StoredHistory(history, messages, turn) == Append(history, turn)

\* lines 136-149: the assistant Turn is appended and the summary updated
ChatCommit(reply) ==
    LET assistant_len == reply.content
    IN /\ conversation_history' =
             StoredHistory(conversation_history, chat.messages,
                           [role |-> "assistant", src |-> Src(chats, 3), len |-> assistant_len])
       /\ summary' = UpdateSummary(summary, chats, chat.user, assistant_len)
       /\ exchanges' = Append(exchanges, Addition(chats, chat.user, assistant_len))
       /\ result' = [error |-> FALSE,
                     response |-> [apology |-> FALSE, src |-> Src(chats, 3),
                                   len |-> assistant_len],
                     context_used |-> chat.context > 0,
                     call |-> [chat EXCEPT !.replies = Append(@, reply)]]
       /\ chat' = IdleChat

\* the first invocation returned or raised (lines 86-111, 133-156)
ChatFirstDone ==
    /\ chat.pc = "invoke1"
    /\ running = 0
    /\ cc[1].pc \in {"returned", "raised"}
    /\ IF cc[1].pc = "raised"
       THEN ChatError(chat, "backend") /\ UNCHANGED <<conversation_history, summary, exchanges>>
       ELSE IF cc[1].response.function_call
            THEN \* execute_function_call is awaited
                 /\ chat' = [chat EXCEPT !.pc = "dispatch", !.response = cc[1].response,
                                         !.replies = Append(@, cc[1].response)]
                 /\ UNCHANGED <<conversation_history, summary, exchanges, result>>
            ELSE ChatCommit(cc[1].response)
    /\ UNCHANGED <<chats>>
    /\ UNCHANGED <<config, input, shaped, op>>
    \* the finished call's locals are gone
    /\ cc' = [cc EXCEPT ![1] = IdleFrame]
    /\ UNCHANGED <<now, strict, running, request_timestamps, token_timestamps,
                   calls, recorded, last_sent>>

\* mutant: a failed dispatch leaves no trace in the function-role Turn
FunctionPayloadBlind(status) == IF status = "error" THEN 5 ELSE 5

\* content ids of the function-role Turn: the result, or the error payload
FunctionPayload(status) == IF status = "error" THEN 8 ELSE 5

\* mutant: the function-result Turn comes before the function-call Turn
WithFunctionTurnsSwapped(messages, k, status) ==
    messages \o
    <<[role |-> "function", src |-> Src(k, FunctionPayload(status)),
       len |-> FunctionResultLen],
      [role |-> "assistant", src |-> Src(k, 4), len |-> 0]>>

\* the two messages.append of lines 113-123
WithFunctionTurns(messages, k, status) ==
    messages \o
    <<[role |-> "assistant", src |-> Src(k, 4), len |-> 0],
      [role |-> "function", src |-> Src(k, FunctionPayload(status)),
       len |-> FunctionResultLen]>>

\* execute_function_call returned (it catches its failures): lines 111-130
ChatDispatched ==
    /\ chat.pc = "dispatch"
    /\ running = 0
    /\ \E status \in {"success", "error"}, serializable \in BOOLEAN :
        \* a dispatch failure is caught in execute_function_call, whose result
        \* is then the text "Error: ..."
        LET frame == [chat EXCEPT !.dispatches = @ + 1,
                                  !.failed = IF status = "error"
                                             THEN @ \cup {"dispatch"} ELSE @]
        IN
        IF ~serializable
        THEN \* json.dumps(function_result["result"]) raises
             /\ status = "success"
             /\ ChatError(frame, "serialize")
             /\ UNCHANGED <<cc, running>>
        ELSE LET messages == WithFunctionTurns(chat.messages, chats, status)
                 trimmed == TrimMessages(messages, config)
             IN /\ chat' = [frame EXCEPT !.pc = "invoke2", !.messages = trimmed,
                                         !.invocations =
                                            Append(@, [functions |-> FALSE,
                                                       messages |-> trimmed])]
                /\ cc' = [cc EXCEPT ![1] = Completion(trimmed, FALSE)]
                /\ running' = 1
                /\ UNCHANGED result
    /\ UNCHANGED <<conversation_history, summary, exchanges, chats>>
    /\ UNCHANGED <<config, input, shaped, op, now, strict, request_timestamps,
                   token_timestamps, calls, recorded, last_sent>>

\* the second invocation returned or raised (lines 127-156)
ChatSecondDone ==
    /\ chat.pc = "invoke2"
    /\ running = 0
    /\ cc[1].pc \in {"returned", "raised"}
    /\ IF cc[1].pc = "raised"
       THEN ChatError(chat, "backend") /\ UNCHANGED <<conversation_history, summary, exchanges>>
       ELSE ChatCommit(cc[1].response)
    /\ UNCHANGED <<chats>>
    /\ UNCHANGED <<config, input, shaped, op>>
    \* the finished call's locals are gone
    /\ cc' = [cc EXCEPT ![1] = IdleFrame]
    /\ UNCHANGED <<now, strict, running, request_timestamps, token_timestamps,
                   calls, recorded, last_sent>>

\* AIAssistant.clear_conversation_history, between chat calls
ClearConversationHistory ==
    /\ chat.pc = "idle"
    /\ running = 0
    /\ conversation_history # <<>>
    /\ conversation_history' = <<>>
    /\ result' = <<>>
    /\ UNCHANGED <<summary, exchanges, chat, chats>>
    /\ UNCHANGED <<config, input, shaped, op>>
    /\ UNCHANGED clientVars

----------------------------------------------------------------------------
(* AIAssistant.stream_chat                                                  *)

RECURSIVE FragmentsLen(_)
\* len of the string the fragments concatenate to
FragmentsLen(fragments) ==
    IF fragments = <<>> THEN 0
    ELSE Head(fragments).len + FragmentsLen(Tail(fragments))

\* len(user_message) of the stream_chat calls
StreamUserLenSet == {10}

\* "async for chunk in self.llm_client.stream_chat(messages, temperature)"
\* is entered (line 505)
StreamInvoke(frame, messages) ==
    /\ chat' = [frame EXCEPT !.pc = "s_wait", !.messages = messages]
    /\ cc' = [cc EXCEPT ![1] = StreamFrame(messages)]
    /\ running' = 1

\* stream_chat is called: lines 483-495, and on to the first await
StreamBegin ==
    /\ chat.pc = "idle"
    /\ running = 0
    /\ chats < MaxChats
    /\ chats' = chats + 1
    /\ \E u \in StreamUserLenSet, use_rag \in BOOLEAN :
        LET user_turn == [role |-> "user", src |-> Src(chats + 1, 1), len |-> u]
            history_now == Append(conversation_history, user_turn)
            messages == <<[role |-> "system", src |-> 0, len |-> config.SYSTEM_PROMPT]>>
                        \o history_now
            frame == [IdleChat EXCEPT !.user = u, !.before = conversation_history]
        IN /\ conversation_history' = history_now
           /\ IF use_rag
              THEN /\ chat' = [frame EXCEPT !.pc = "s_rag", !.messages = messages]
                   /\ UNCHANGED <<cc, running>>
              ELSE StreamInvoke(frame, messages)
    /\ result' = <<>>
    /\ UNCHANGED <<summary, exchanges>>
    /\ UNCHANGED <<config, input, shaped, op, now, strict, request_timestamps,
                   token_timestamps, calls, recorded, last_sent>>

\* get_relevant_context returned (lines 498-502)
StreamRag ==
    /\ chat.pc = "s_rag"
    /\ running = 0
    /\ \E ctx \in ContextLenSet, retrieved \in BOOLEAN :
        LET context == RetrievedContext(retrieved, ctx)
            frame == [chat EXCEPT !.cut = IF retrieved THEN ContextCut(ctx) ELSE ContextCut(0)]
            n == Len(chat.messages)
            enhanced == [role |-> "user", src |-> Src(chats, 2),
                         len |-> CONTEXT_WRAP_LEN + context + chat.user]
            \* the last dict of the copy is the dict in conversation_history
            messages == IF context > 0
                        THEN [chat.messages EXCEPT ![n] = enhanced]
                        ELSE chat.messages
        IN /\ conversation_history' =
                 IF context > 0
                 THEN [conversation_history EXCEPT ![Len(conversation_history)] = enhanced]
                 ELSE conversation_history
           /\ StreamInvoke(frame, messages)
    /\ UNCHANGED <<summary, exchanges, chats, result>>
    /\ UNCHANGED <<config, input, shaped, op, now, strict, request_timestamps,
                   token_timestamps, calls, recorded, last_sent>>

\* full_response += chunk (line 506)
Concatenate(full_response, chunk) == Append(full_response, chunk)

\* the backend's next chunk has content: the client yields it
\* (llm_client.py lines 243-244) into the loop body, which concatenates it
\* and yields it on (lines 506-507)
StreamTake ==
    /\ chat.pc = "s_wait"
    /\ running = 0
    /\ cc[1].pc = "streaming"
    /\ Len(cc[1].chunks) < MaxChunks
    /\ \E l \in FragmentLenSet(Len(cc[1].chunks) + 1) :
        LET f == StreamYield(cc[1], l)
            chunk == f.chunks[Len(f.chunks)]
        IN /\ cc' = [cc EXCEPT ![1] = f]
           /\ chat' = [chat EXCEPT !.pc = "s_yielded",
                                   !.full_response = Concatenate(@, chunk),
                                   !.yielded = Append(@, chunk)]
    /\ UNCHANGED <<conversation_history, summary, exchanges, chats, result>>
    /\ UNCHANGED <<config, input, shaped, op, now, strict, running, request_timestamps,
                   token_timestamps, calls, recorded, last_sent>>

\* the consumer asks for the next fragment: both generators resume
StreamResume ==
    /\ chat.pc = "s_yielded"
    /\ chat' = [chat EXCEPT !.pc = "s_wait"]
    /\ cc' = [cc EXCEPT ![1].pc = "streaming"]
    /\ UNCHANGED <<conversation_history, summary, exchanges, chats, result>>
    /\ UNCHANGED <<config, input, shaped, op, now, strict, running, request_timestamps,
                   token_timestamps, calls, recorded, last_sent>>

\* the consumer stops iterating: the generator is closed at its yield
\* (GeneratorExit is not an Exception, so line 514 does not catch it)
StreamStop ==
    /\ chat.pc = "s_yielded"
    /\ result' = [error |-> FALSE, stopped |-> TRUE, call |-> chat]
    /\ chat' = IdleChat
    \* the client generator is closed with it and its frame is gone
    /\ cc' = [cc EXCEPT ![1] = IdleFrame]
    /\ UNCHANGED <<conversation_history, summary, exchanges, chats>>
    /\ UNCHANGED <<config, input, shaped, op, now, strict, running, request_timestamps,
                   token_timestamps, calls, recorded, last_sent>>

\* mutant: what was received is committed when the stream breaks
StreamCommitAlways(ended) ==
    Append(conversation_history,
           [role |-> "assistant", src |-> Src(chats, 3),
            len |-> FragmentsLen(chat.full_response)])

\* conversation_history after the loop: the assistant Turn is appended
\* when the loop ended (lines 509-512), nothing when it raised (514-516)
StreamCommit(ended) ==
    IF ended
    THEN Append(conversation_history,
                [role |-> "assistant", src |-> Src(chats, 3),
                 len |-> FragmentsLen(chat.full_response)])
    ELSE conversation_history

\* the client generator is exhausted: lines 509-512
StreamDone ==
    /\ chat.pc = "s_wait"
    /\ cc[1].pc = "returned"
    /\ conversation_history' = StreamCommit(TRUE)
    /\ result' = [error |-> FALSE, stopped |-> FALSE, call |-> chat]
    /\ chat' = IdleChat
    \* the finished generator's frame is gone
    /\ cc' = [cc EXCEPT ![1] = IdleFrame]
    /\ UNCHANGED <<summary, exchanges, chats>>
    /\ UNCHANGED <<config, input, shaped, op, now, strict, running, request_timestamps,
                   token_timestamps, calls, recorded, last_sent>>

\* the client generator raised: "Error: ..." is yielded (lines 514-516)
StreamError ==
    /\ chat.pc = "s_wait"
    /\ cc[1].pc = "raised"
    /\ conversation_history' = StreamCommit(FALSE)
    /\ result' = [error |-> TRUE, stopped |-> FALSE, call |-> chat]
    /\ chat' = IdleChat
    \* the finished generator's frame is gone
    /\ cc' = [cc EXCEPT ![1] = IdleFrame]
    /\ UNCHANGED <<summary, exchanges, chats>>
    /\ UNCHANGED <<config, input, shaped, op, now, strict, running, request_timestamps,
                   token_timestamps, calls, recorded, last_sent>>

\* the settings the streaming path is run under: both limiters on, the
\* token window the longer one
StreamConfigs ==
    { [MAX_PROMPT_CHARS |-> 2000, MAX_HISTORY_MESSAGES |-> 2,
       RAG_CONTEXT_MAX_CHARS |-> 300, SYSTEM_PROMPT |-> 40,
       RESPONSE_MAX_TOKENS |-> 600,
       OPENAI_RETRY_MAX_ATTEMPTS |-> 3, OPENAI_RETRY_BASE_DELAY_SEC |-> 1,
       OPENAI_RPM_LIMIT |-> l[1], RPM_WINDOW_SEC |-> 2,
       OPENAI_TPM_LIMIT |-> l[2], TPM_WINDOW_SEC |-> 3] :
        l \in {<<1, 1100>>} }

InitStream ==
    /\ config \in StreamConfigs
    /\ input = <<>>
    /\ shaped = <<>>
    /\ op = "none"
    /\ now = 0
    /\ strict = FALSE
    /\ running = 0
    /\ request_timestamps = <<>>
    /\ token_timestamps = <<>>
    /\ cc = [c \in {1} |-> IdleFrame]
    /\ calls = [c \in {1} |-> 0]
    /\ recorded = <<>>
    /\ last_sent = <<>>
    /\ conversation_history = <<>>
    /\ summary = <<>>
    /\ exchanges = <<>>
    /\ chat = IdleChat
    /\ chats = 0
    /\ result = <<>>

\* time passes between two calls and during a sleep. The steps from the
\* throttle checks to the request run without suspending; elsewhere the
\* clock is not read before the next call, so time that passes there is time
\* that passes after the call.
StreamTick ==
    /\ chat.pc = "idle" \/ cc[1].pc \in {"s_rpm_wait", "s_tpm_wait"}
    /\ Tick

NextStream ==
    \/ StreamBegin
    \/ StreamRag
    \/ SC_Start(1)
    \/ SC_RpmWake(1)
    \/ SC_TpmCheck(1)
    \/ SC_TpmWake(1)
    \/ SC_Open(1)
    \/ SC_Next(1)
    \/ StreamTake
    \/ StreamResume
    \/ StreamStop
    \/ StreamDone
    \/ StreamError
    \/ StreamTick

SpecStream == InitStream /\ [][NextStream]_vars

----------------------------------------------------------------------------

ChatConfigs ==
    { [MAX_PROMPT_CHARS |-> l[1], MAX_HISTORY_MESSAGES |-> l[2],
       RAG_CONTEXT_MAX_CHARS |-> 300, SYSTEM_PROMPT |-> 0,
       RESPONSE_MAX_TOKENS |-> 600,
       OPENAI_RETRY_MAX_ATTEMPTS |-> 2, OPENAI_RETRY_BASE_DELAY_SEC |-> 0,
       OPENAI_RPM_LIMIT |-> 0, RPM_WINDOW_SEC |-> 60,
       OPENAI_TPM_LIMIT |-> 0, TPM_WINDOW_SEC |-> 60] :
        \* a tight budget with a cap of one Turn, and the defaults
        l \in {<<2000, 1>>, <<28000, 16>>} }

InitChat ==
    /\ config \in ChatConfigs
    /\ input = <<>>
    /\ shaped = <<>>
    /\ op = "none"
    /\ now = 0
    /\ strict = FALSE
    /\ running = 0
    /\ request_timestamps = <<>>
    /\ token_timestamps = <<>>
    /\ cc = [c \in {1} |-> IdleFrame]
    /\ calls = [c \in {1} |-> 0]
    /\ recorded = <<>>
    /\ last_sent = <<>>
    /\ conversation_history = <<>>
    /\ summary = <<>>
    /\ exchanges = <<>>
    /\ chat = IdleChat
    /\ chats = 0
    /\ result = <<>>

NextChat ==
    \/ ChatBegin
    \/ ChatTranslated
    \/ ChatRag
    \/ ChatFirstDone
    \/ ChatDispatched
    \/ ChatSecondDone
    \/ ClearConversationHistory
    \/ CC_Loop(1)
    \/ CC_TpmCheck(1)
    \/ CC_Send(1)
    \/ CC_XTpmCheck(1)
    \/ CC_BackoffWake(1)

SpecChat == InitChat /\ [][NextChat]_vars

----------------------------------------------------------------------------
(* One assistant used through chat, stream_chat and                         *)
(* clear_conversation_history, one call at a time, the limiters disabled   *)
(* as in the default configuration (no throttle ever sleeps); the chat     *)
(* calls are made with translate_queries off.                              *)

\* the default budget and count cap, and a single attempt per call
AssistantConfigs ==
    { [cfg EXCEPT !.OPENAI_RETRY_MAX_ATTEMPTS = 1] :
        cfg \in { c \in ChatConfigs : c.MAX_HISTORY_MESSAGES = 16 } }

InitAssistant ==
    /\ config \in AssistantConfigs
    /\ input = <<>>
    /\ shaped = <<>>
    /\ op = "none"
    /\ now = 0
    /\ strict = FALSE
    /\ running = 0
    /\ request_timestamps = <<>>
    /\ token_timestamps = <<>>
    /\ cc = [c \in {1} |-> IdleFrame]
    /\ calls = [c \in {1} |-> 0]
    /\ recorded = <<>>
    /\ last_sent = <<>>
    /\ conversation_history = <<>>
    /\ summary = <<>>
    /\ exchanges = <<>>
    /\ chat = IdleChat
    /\ chats = 0
    /\ result = <<>>

\* chat called with translate_queries off
ChatBeginUntranslated ==
    /\ ChatBegin
    /\ ~chat'.translate

NextAssistant ==
    \/ ChatBeginUntranslated
    \/ ChatRag
    \/ ChatFirstDone
    \/ ChatDispatched
    \/ ChatSecondDone
    \/ ClearConversationHistory
    \/ CC_Loop(1)
    \/ CC_TpmCheck(1)
    \/ CC_Send(1)
    \/ CC_XTpmCheck(1)
    \/ CC_BackoffWake(1)
    \/ StreamBegin
    \/ StreamRag
    \/ SC_Start(1)
    \/ SC_TpmCheck(1)
    \/ SC_Open(1)
    \/ SC_Next(1)
    \/ StreamTake
    \/ StreamResume
    \/ StreamStop
    \/ StreamDone
    \/ StreamError

SpecAssistant == InitAssistant /\ [][NextAssistant]_vars

----------------------------------------------------------------------------
(* Two chat calls in flight on the one assistant of web_api (lines 22-32,  *)
(* 69-98): each request handler awaits assistant.chat, and a call gives    *)
(* up the event loop where it really suspends: in the backoff sleep of     *)
(* chat_completion and while a function is dispatched.  The send itself is *)
(* a blocking call, and what follows a return runs on without suspending.  *)
(* Here chat and result hold one frame and one return value per call, and  *)
(* the calls are made with use_rag off.                                    *)

Callers == 1..MaxChats

\* no call is between the return of chat_completion and the code after it
Settled == \A d \in DOMAIN cc : cc[d].pc \notin {"returned", "raised"}

\* the except branch of chat (lines 151-156) in call c
ChatErrorOf(c, frame, why) ==
    /\ result' = [result EXCEPT ![c] =
                     [error |-> TRUE, response |-> [apology |-> TRUE, src |-> 0, len |-> 0],
                      call |-> [frame EXCEPT !.failed = @ \cup {why}]]]
    /\ chat' = [chat EXCEPT ![c] = IdleChat]

\* call c is entered and runs to its first send (lines 36-95)
ChatBeginOf(c) ==
    /\ running = 0
    /\ Settled
    /\ chat[c].pc = "idle"
    /\ result[c] = <<>>
    /\ chats' = chats + 1
    /\ \E u \in StreamUserLenSet, use_functions \in BOOLEAN, init_ok \in BOOLEAN :
        LET user_turn == [role |-> "user", src |-> Src(c, 1), len |-> u]
            history_now == Append(conversation_history, user_turn)
            messages == <<[role |-> "system", src |-> 0,
                           len |-> BuildSystemPromptLen(history_now)]>> \o history_now
            trimmed == TrimMessages(WithSummary(messages, c), config)
            frame == [IdleChat EXCEPT !.user = u, !.use_functions = use_functions,
                                      !.before = conversation_history,
                                      !.before_summary = summary]
        IN IF use_functions /\ ~init_ok
           THEN \* _ensure_function_caller raises
                /\ ChatErrorOf(c, frame, "init")
                /\ UNCHANGED <<conversation_history, cc, running>>
           ELSE /\ (~use_functions => init_ok)
                /\ conversation_history' = history_now
                /\ chat' = [chat EXCEPT ![c] =
                              [frame EXCEPT !.pc = "invoke1", !.messages = trimmed,
                                            !.invocations =
                                               <<[functions |-> use_functions,
                                                  messages |-> trimmed]>>]]
                /\ cc' = [cc EXCEPT ![c] = Completion(trimmed, use_functions)]
                /\ running' = c
                /\ UNCHANGED result
    /\ UNCHANGED <<summary, exchanges>>
    /\ UNCHANGED <<config, input, shaped, op, now, strict, request_timestamps,
                   token_timestamps, calls, recorded, last_sent>>

\* lines 136-149 in call c
ChatCommitOf(c, reply) ==
    LET assistant_len == reply.content
    IN /\ conversation_history' =
             StoredHistory(conversation_history, chat[c].messages,
                           [role |-> "assistant", src |-> Src(c, 3), len |-> assistant_len])
       /\ summary' = UpdateSummary(summary, c, chat[c].user, assistant_len)
       /\ exchanges' = Append(exchanges, Addition(c, chat[c].user, assistant_len))
       /\ result' = [result EXCEPT ![c] =
                        [error |-> FALSE,
                         response |-> [apology |-> FALSE, src |-> Src(c, 3),
                                       len |-> assistant_len],
                         context_used |-> FALSE,
                         call |-> [chat[c] EXCEPT !.replies = Append(@, reply)]]]
       /\ chat' = [chat EXCEPT ![c] = IdleChat]

\* the first invocation of call c returned or raised (lines 86-111, 133-156)
ChatFirstDoneOf(c) ==
    /\ chat[c].pc = "invoke1"
    /\ running = 0
    /\ cc[c].pc \in {"returned", "raised"}
    /\ IF cc[c].pc = "raised"
       THEN /\ ChatErrorOf(c, chat[c], "backend")
            /\ UNCHANGED <<conversation_history, summary, exchanges>>
       ELSE IF cc[c].response.function_call
            THEN \* execute_function_call is awaited: the call suspends
                 /\ chat' = [chat EXCEPT ![c] =
                               [chat[c] EXCEPT !.pc = "dispatch",
                                               !.response = cc[c].response,
                                               !.replies = Append(@, cc[c].response)]]
                 /\ UNCHANGED <<conversation_history, summary, exchanges, result>>
            ELSE ChatCommitOf(c, cc[c].response)
    /\ cc' = [cc EXCEPT ![c] = IdleFrame]
    /\ UNCHANGED <<chats>>
    /\ UNCHANGED <<config, input, shaped, op>>
    /\ UNCHANGED <<now, strict, running, request_timestamps, token_timestamps,
                   calls, recorded, last_sent>>

\* execute_function_call of call c returned: lines 111-130
ChatDispatchedOf(c) ==
    /\ chat[c].pc = "dispatch"
    /\ running = 0
    /\ Settled
    /\ \E status \in {"success", "error"}, serializable \in BOOLEAN :
        LET frame == [chat[c] EXCEPT !.dispatches = @ + 1,
                                     !.failed = IF status = "error"
                                                THEN @ \cup {"dispatch"} ELSE @]
        IN
        IF ~serializable
        THEN \* json.dumps(function_result["result"]) raises
             /\ status = "success"
             /\ ChatErrorOf(c, frame, "serialize")
             /\ UNCHANGED <<cc, running>>
        ELSE LET messages == WithFunctionTurns(chat[c].messages, c, status)
                 trimmed == TrimMessages(messages, config)
             IN /\ chat' = [chat EXCEPT ![c] =
                              [frame EXCEPT !.pc = "invoke2", !.messages = trimmed,
                                            !.invocations =
                                               Append(@, [functions |-> FALSE,
                                                          messages |-> trimmed])]]
                /\ cc' = [cc EXCEPT ![c] = Completion(trimmed, FALSE)]
                /\ running' = c
                /\ UNCHANGED result
    /\ UNCHANGED <<conversation_history, summary, exchanges, chats>>
    /\ UNCHANGED <<config, input, shaped, op, now, strict, request_timestamps,
                   token_timestamps, calls, recorded, last_sent>>

\* the second invocation of call c returned or raised (lines 127-156)
ChatSecondDoneOf(c) ==
    /\ chat[c].pc = "invoke2"
    /\ running = 0
    /\ cc[c].pc \in {"returned", "raised"}
    /\ IF cc[c].pc = "raised"
       THEN /\ ChatErrorOf(c, chat[c], "backend")
            /\ UNCHANGED <<conversation_history, summary, exchanges>>
       ELSE ChatCommitOf(c, cc[c].response)
    /\ cc' = [cc EXCEPT ![c] = IdleFrame]
    /\ UNCHANGED <<chats>>
    /\ UNCHANGED <<config, input, shaped, op>>
    /\ UNCHANGED <<now, strict, running, request_timestamps, token_timestamps,
                   calls, recorded, last_sent>>

\* asyncio.sleep(backoff) of call c returns when the event loop is free
BackoffWakeOf(c) ==
    /\ Settled
    /\ CC_BackoffWake(c)

InitChatConc ==
    /\ config \in { cfg \in ChatConfigs : cfg.MAX_HISTORY_MESSAGES = 16 }
    /\ input = <<>>
    /\ shaped = <<>>
    /\ op = "none"
    /\ now = 0
    /\ strict = FALSE
    /\ running = 0
    /\ request_timestamps = <<>>
    /\ token_timestamps = <<>>
    /\ cc = [c \in Callers |-> IdleFrame]
    /\ calls = [c \in Callers |-> 0]
    /\ recorded = <<>>
    /\ last_sent = <<>>
    /\ conversation_history = <<>>
    /\ summary = <<>>
    /\ exchanges = <<>>
    /\ chat = [c \in Callers |-> IdleChat]
    /\ chats = 0
    /\ result = [c \in Callers |-> <<>>]

NextChatConc ==
    \/ \E c \in Callers : ChatBeginOf(c)
    \/ \E c \in Callers : ChatFirstDoneOf(c)
    \/ \E c \in Callers : ChatDispatchedOf(c)
    \/ \E c \in Callers : ChatSecondDoneOf(c)
    \/ \E c \in Callers : CC_Loop(c)
    \/ \E c \in Callers : CC_TpmCheck(c)
    \/ \E c \in Callers : CC_Send(c)
    \/ \E c \in Callers : CC_XTpmCheck(c)
    \/ \E c \in Callers : BackoffWakeOf(c)

SpecChatConc == InitChatConc /\ [][NextChatConc]_vars

----------------------------------------------------------------------------
(* One chat call with both limiters on.  Time is what the call sleeps through: the   *)
(* clock moves while the call is suspended in a sleep that has not run     *)
(* out.  Each collaborator the call awaits returns or raises, the event    *)
(* loop resumes a call that can run, and a sleep ends when its time has    *)
(* passed: the steps of a call in progress are taken under weak fairness.  *)

\* a sleep of caller 1 that is still running
Sleeping ==
    /\ running = 0
    /\ cc[1].pc \in {"rpm_wait", "tpm_wait", "x_tpm_wait", "backoff_wait"}
    /\ now < cc[1].wake

\* time passes during asyncio.sleep
SleepTick ==
    /\ Sleeping
    /\ now' = now + 1
    /\ UNCHANGED <<strict, running, request_timestamps, token_timestamps, cc,
                   calls, recorded, last_sent>>
    /\ UNCHANGED otherVars

LiveConfigs ==
    { [cfg EXCEPT !.OPENAI_RETRY_BASE_DELAY_SEC = 1,
                  !.OPENAI_RPM_LIMIT = 1, !.RPM_WINDOW_SEC = 2,
                  !.OPENAI_TPM_LIMIT = 1000, !.TPM_WINDOW_SEC = 3] :
        cfg \in { c \in ChatConfigs : c.MAX_HISTORY_MESSAGES = 16 } }

InitChatLive ==
    /\ config \in LiveConfigs
    /\ input = <<>>
    /\ shaped = <<>>
    /\ op = "none"
    /\ now = 0
    /\ strict = FALSE
    /\ running = 0
    /\ request_timestamps = <<>>
    /\ token_timestamps = <<>>
    /\ cc = [c \in {1} |-> IdleFrame]
    /\ calls = [c \in {1} |-> 0]
    /\ recorded = <<>>
    /\ last_sent = <<>>
    /\ conversation_history = <<>>
    /\ summary = <<>>
    /\ exchanges = <<>>
    /\ chat = IdleChat
    /\ chats = 0
    /\ result = <<>>

\* the first chat call on the assistant
ChatBeginFirst ==
    /\ chats = 0
    /\ ChatBegin

\* the steps of a chat call in progress
ChatProgress ==
    \/ ChatTranslated
    \/ ChatRag
    \/ ChatFirstDone
    \/ ChatDispatched
    \/ ChatSecondDone
    \/ CC_Loop(1)
    \/ CC_RpmWake(1)
    \/ CC_TpmCheck(1)
    \/ CC_TpmWake(1)
    \/ CC_Send(1)
    \/ CC_XTpmCheck(1)
    \/ CC_XTpmWake(1)
    \/ CC_BackoffWake(1)
    \/ SleepTick

NextChatLive ==
    \/ ChatBeginFirst
    \/ ChatTranslated
    \/ ChatRag
    \/ ChatFirstDone
    \/ ChatDispatched
    \/ ChatSecondDone
    \/ CC_Loop(1)
    \/ CC_RpmWake(1)
    \/ CC_TpmCheck(1)
    \/ CC_TpmWake(1)
    \/ CC_Send(1)
    \/ CC_XTpmCheck(1)
    \/ CC_XTpmWake(1)
    \/ CC_BackoffWake(1)
    \/ SleepTick

SpecChatLive == InitChatLive /\ [][NextChatLive]_vars /\ WF_vars(ChatProgress)

----------------------------------------------------------------------------
(* Properties of the requests chat sends.                                  *)

SystemPositions(messages) ==
    { i \in 1..Len(messages) : messages[i].role = "system" }

\* C6 as stated: every message list chat sends to the backend has at most
\* one system Turn, and it is the first one.
C6_OneSystemTurnFirst ==
    /\ Cardinality(SystemPositions(last_sent)) <= 1
    /\ SystemPositions(last_sent) \subseteq {1}

\* C6 amended: every message list chat sends has at most two system Turns:
\* the system instruction at position 0 and, only when the rolling summary
\* is non-empty, the summary Turn directly after it; no system Turn comes
\* later.
C6_SystemTurnsLead ==
    /\ SystemPositions(last_sent) \in {{}, {1}, {1, 2}}
    /\ 2 \in SystemPositions(last_sent) => summary # <<>>
    /\ 1 \in SystemPositions(last_sent) => last_sent[1].src = 0

C6_Witness ==
    /\ summary # <<>>
    /\ Len(last_sent) >= 3
    /\ SystemPositions(last_sent) = {1, 2}
    /\ last_sent[Len(last_sent)].role = "user"

----------------------------------------------------------------------------
(* Properties of what chat returns and of what it leaves behind.           *)

\* the failures that reach the except branch of chat
Reported == {"init", "backend", "serialize"}

\* the failures a collaborator catches itself
Absorbed == {"translation", "retrieval", "dispatch"}

\* C14 as stated: whatever failed inside a chat call, the call returns a
\* result with an error field and an apology as response.
C14_EveryFailureReported ==
    (result # <<>> /\ result.call.failed # {}) =>
        (result.error /\ result.response.apology)

\* C14 amended: chat always returns a result.  The result carries an error
\* field and an apology exactly when function-caller initialisation, a
\* backend invocation of the turn or the serialisation of the function
\* result failed; a failed translation, retrieval or function dispatch is
\* caught by the collaborator and does not by itself make the result an
\* error.
C14_FailuresReportedOrAbsorbed ==
    result # <<>> =>
        /\ result.call.failed \subseteq Reported \cup Absorbed
        /\ result.error <=> (result.call.failed \cap Reported # {})
        /\ result.error <=> (result.response.apology)

C14_Witness ==
    /\ result # <<>>
    /\ result.error
    /\ result.call.failed = {"translation", "retrieval", "backend"}

\* C15: a chat call that returns a result with an error field leaves
\* conversation_history and the rolling summary as they were before the call.
C15_ErrorLeavesStateUntouched ==
    (result # <<>> /\ result.error) =>
        /\ conversation_history = result.call.before
        /\ summary = result.call.before_summary

\* C16: after a chat call that returns without an error field,
\* conversation_history is its value before the call extended by the user
\* Turn holding exactly user_message and the assistant Turn holding the
\* returned response.
C16_SuccessAppendsExchange ==
    (result # <<>> /\ ~result.error) =>
        conversation_history =
            result.call.before \o
            <<[role |-> "user", src |-> Src(chats, 1), len |-> result.call.user],
              [role |-> "assistant", src |-> result.response.src, len |-> ReplyLen]>>

\* C17: after a summary update the rolling summary is the trailing
\* max_summary_chars characters of (previous summary + encoded exchange),
\* also when the previous summary was empty.
C17_SummaryKeepsTail ==
    (result # <<>> /\ ~result.error) =>
        summary = TakeLast(result.call.before_summary
                              \o <<exchanges[Len(exchanges)]>>,
                           MAX_SUMMARY_CHARS)

\* C18: starting from an empty summary, updating after each exchange gives
\* the trailing max_summary_chars characters of all the encoded exchanges
\* concatenated.
C18_SummaryIsTailOfAll ==
    summary = TakeLast(exchanges, MAX_SUMMARY_CHARS)

\* the chat call in progress, or else the one that has just returned
TheCall ==
    IF chat.pc # "idle" THEN chat
    ELSE IF result # <<>> THEN result.call ELSE IdleChat

\* C19: when the dispatch of the requested function fails, chat does not
\* fail: the function is dispatched once, the second invocation is issued
\* without functions on a request that ends with the function-role Turn
\* carrying the error payload, preceded by the assistant function-call Turn
\* (where the history cap leaves room for two Turns), and the call returns
\* without an error field unless that second invocation fails.
C19_DispatchFailureGoesOn ==
    "dispatch" \in TheCall.failed =>
        /\ TheCall.dispatches = 1
        /\ Len(TheCall.invocations) = 2
        /\ LET second == TheCall.invocations[2]
               n == Len(second.messages)
           IN /\ ~second.functions
              /\ second.messages[n].role = "function"
              /\ second.messages[n].src = Src(chats, 8)
              /\ config.MAX_HISTORY_MESSAGES >= 2 =>
                    /\ second.messages[n - 1].role = "assistant"
                    /\ second.messages[n - 1].src = Src(chats, 4)
        /\ (chat.pc = "idle" /\ result # <<>>) =>
              (result.error <=> "backend" \in result.call.failed)

C19_Witness ==
    /\ chat.pc = "idle"
    /\ result # <<>>
    /\ ~result.error
    /\ "dispatch" \in result.call.failed
    /\ Len(result.call.invocations) = 2

\* C20: a chat call makes one invocation for the turn when the first reply
\* carries no function call, and that reply's content is the response.
\* When it carries one, exactly one function is dispatched, the request of
\* the one further invocation ends with the function-call Turn followed by
\* the function-result Turn (where the history cap leaves room for two
\* Turns), no functions are offered with it, and the second reply's content
\* is the response.
C20_RoundTrip ==
    LET call == TheCall
        sent == call.invocations
        got == call.replies
    IN /\ Len(sent) <= 2
       /\ call.dispatches <= 1
       /\ Len(sent) = 2 =>
             LET n == Len(sent[2].messages)
             IN /\ call.dispatches = 1
                /\ got[1].function_call
                /\ ~sent[2].functions
                /\ sent[2].messages[n].role = "function"
                /\ config.MAX_HISTORY_MESSAGES >= 2 =>
                      /\ sent[2].messages[n - 1].role = "assistant"
                      /\ sent[2].messages[n - 1].src = Src(chats, 4)
       /\ (chat.pc = "idle" /\ result # <<>> /\ ~result.error) =>
             /\ Len(got) = Len(sent)
             /\ ~got[Len(got)].function_call
             /\ Len(sent) = IF got[1].function_call THEN 2 ELSE 1
             /\ call.dispatches = Len(sent) - 1
             /\ result.response.len = got[Len(got)].content
             /\ conversation_history[Len(conversation_history)] =
                   [role |-> "assistant", src |-> result.response.src,
                    len |-> got[Len(got)].content]

C20_Witness ==
    /\ chat.pc = "idle"
    /\ result # <<>>
    /\ ~result.error
    /\ result.call.dispatches = 1
    /\ Len(result.call.invocations) = 2
    /\ result.call.replies[1].function_call
    /\ result.response.len = ReplyLen

\* C21: when retrieval fails in a chat call with use_rag, the call goes on
\* without context: the user Turn is sent unaugmented, and when no backend
\* invocation fails the result carries no error field and context_used is
\* false.
C21_RetrievalFailureDegrades ==
    "retrieval" \in TheCall.failed =>
        /\ TheCall.use_rag
        /\ TheCall.context = 0
        /\ Len(TheCall.invocations) >= 1
        /\ LET first == TheCall.invocations[1].messages
           IN /\ first[Len(first)].role = "user"
              /\ first[Len(first)].src = Src(chats, 1)
        /\ (chat.pc = "idle" /\ result # <<>>) =>
              /\ result.error <=> (result.call.failed \cap Reported # {})
              /\ ~result.error => ~result.context_used

C21_Witness ==
    /\ chat.pc = "idle"
    /\ result # <<>>
    /\ ~result.error
    /\ "retrieval" \in result.call.failed
    /\ ~result.context_used

----------------------------------------------------------------------------
(* Streaming                                                                *)

\* the outcomes of the backend requests a frame has issued, as a set
OutcomeSet(f) == {f.outcomes[i] : i \in DOMAIN f.outcomes}

\* C22: a stream_chat call has returned from the request throttle and from
\* the token throttle before it issues its backend request, issues at most
\* one request (exactly one once it is past the opening), and a failure of
\* the request or of the open stream is raised to the caller at once: no
\* retry, no backoff sleep.
C22_StreamThrottledOnceNoRetry ==
    \A c \in DOMAIN cc :
        LET f == cc[c]
        IN f.stream =>
            /\ Len(f.outcomes) <= 1
            /\ f.pc \in {"s_open", "streaming", "yielded", "returned", "raised"} =>
                  /\ f.passed = <<"rpm">>
                  /\ f.tpm_ret # <<>>
            /\ f.pc \in {"streaming", "yielded", "returned", "raised"} =>
                  Len(f.outcomes) = 1
            /\ f.pc \in {"streaming", "yielded", "returned"} =>
                  f.outcomes = <<"opened">>
            /\ "failed" \in OutcomeSet(f) => f.pc = "raised"
            /\ (f.pc = "raised") <=> (f.error # NoError)
            /\ f.sleeps = <<>>
            /\ f.attempt = 0

\* a stream that passed a throttle wait, yielded a fragment and then broke
C22_Witness ==
    /\ cc[1].stream
    /\ cc[1].pc = "raised"
    /\ cc[1].outcomes = <<"opened">>
    /\ cc[1].chunks # <<>>
    /\ cc[1].tpm_ret.at > 0
    /\ chats = 2

\* the Turns of conversation_history with the assistant role
AssistantTurns(history) ==
    { i \in DOMAIN history : history[i].role = "assistant" }

\* C23: while a stream_chat call is under way, and after it broke or its
\* consumer stopped iterating, conversation_history holds the Turns the call
\* was entered with and its user Turn, and no assistant Turn of the call; a
\* call whose stream ended has appended one assistant Turn as its last
\* step, whose content is the fragments it yielded, concatenated in order.
C23_StreamCommitsWholeOrNothing ==
    /\ chat.pc \in {"s_rag", "s_wait", "s_yielded"} =>
          /\ Len(conversation_history) = Len(chat.before) + 1
          /\ AssistantTurns(conversation_history) = AssistantTurns(chat.before)
          /\ conversation_history[Len(conversation_history)].src \in
                {Src(chats, 1), Src(chats, 2)}
    /\ (chat.pc = "idle" /\ result # <<>>) =>
          LET call == result.call
              n == Len(conversation_history)
          IN IF result.error \/ result.stopped
             THEN /\ n = Len(call.before) + 1
                  /\ AssistantTurns(conversation_history) = AssistantTurns(call.before)
                  /\ conversation_history[n].role = "user"
             ELSE /\ n = Len(call.before) + 2
                  /\ conversation_history[n - 1].role = "user"
                  /\ conversation_history[n].role = "assistant"
                  /\ conversation_history[n].src = Src(chats, 3)
                  /\ call.full_response = call.yielded
                  /\ \A i \in DOMAIN call.yielded : call.yielded[i].n = i
                  /\ conversation_history[n].len = FragmentsLen(call.yielded)

\* a call that ended after two fragments and committed them, followed by a
\* call whose consumer stopped after the first fragment
C23_Witness ==
    /\ chat.pc = "idle"
    /\ result # <<>>
    /\ result.stopped
    /\ Len(result.call.yielded) = 1
    /\ Len(conversation_history) = 3
    /\ conversation_history[2].role = "assistant"
    /\ conversation_history[2].len = FragmentsLen(<<Fragment(1, 3), Fragment(2, 5)>>)

----------------------------------------------------------------------------
(* The limiter windows, one caller                                          *)

\* C24: with the request limiter on, a chat_completion attempt whose check
\* found rpm_limit or more requests in the window does not send before the
\* oldest of them leaves the window (its timestamp + rpm_window), and the
\* wait it takes ends exactly then; an attempt whose check found fewer
\* sends without a throttle wait.
C24_RpmWaitsForOldest ==
    \A c \in DOMAIN cc :
        LET f == cc[c]
            seen == f.rpm_seen
        IN (~f.stream /\ seen # <<>> /\ f.pc \in {"rpm_wait", "tpm_check", "tpm_wait", "send"}) =>
              IF Len(seen.kept) >= config.OPENAI_RPM_LIMIT
              THEN /\ f.pc = "rpm_wait" =>
                        /\ seen.slept
                        /\ f.wake = seen.kept[1] + config.RPM_WINDOW_SEC
                   /\ f.pc \in {"tpm_check", "tpm_wait", "send"} =>
                        now >= seen.kept[1] + config.RPM_WINDOW_SEC
              ELSE /\ ~seen.slept
                   /\ f.pc # "rpm_wait"

\* limit 2: two requests recorded at 0, and the third call has slept and
\* is about to send, one window later
C24_Witness ==
    /\ config.OPENAI_RPM_LIMIT = 2
    /\ recorded = <<0, 0>>
    /\ cc[1].pc = "send"
    /\ cc[1].rpm_seen # <<>>
    /\ cc[1].rpm_seen.kept = <<0, 0>>
    /\ cc[1].rpm_seen.slept
    /\ now = config.RPM_WINDOW_SEC

\* the entries of the window, oldest first, from the i-th on
TokensFrom(sorted_entries, i) ==
    SumTokens(SubSeq(sorted_entries, i, Len(sorted_entries)))

\* the positions, oldest first, after whose removal (with everything
\* older) the rest of the window and the request fit the limit
Fitting(sorted_entries, requested_tokens) ==
    { i \in DOMAIN sorted_entries :
        TokensFrom(sorted_entries, i + 1) + requested_tokens <= config.OPENAI_TPM_LIMIT }

\* oldest first: no entry stands before an older one
OldestFirst(entries) ==
    \A i, j \in DOMAIN entries : i < j => entries[i][1] <= entries[j][1]

\* C25: with the token limiter on, a check that finds the window and the
\* request above the limit sleeps until the expiry (timestamp + tpm_window)
\* of the first entry, oldest first, after whose removal the rest and the
\* request fit, and the attempt does not go on before that time; a check
\* that finds them within the limit does not sleep.
C25_TokenThrottleWaitsForFit ==
    \A c \in DOMAIN cc :
        LET f == cc[c]
            seen == f.tpm_seen
        IN (~f.stream /\ seen # <<>>
              /\ f.pc \in {"tpm_wait", "send", "x_tpm_wait", "backoff_wait"}) =>
              LET requested_tokens == f.requested
                  sorted_entries == SortedByTs(seen.kept)
                  fitting == Fitting(sorted_entries, requested_tokens)
              IN /\ OldestFirst(sorted_entries)
                 /\ IF SumTokens(seen.kept) + requested_tokens <= config.OPENAI_TPM_LIMIT
                    THEN ~seen.slept
                    ELSE fitting # {} =>
                           LET first == CHOOSE i \in fitting : \A j \in fitting : i <= j
                               expiry == sorted_entries[first][1] + config.TPM_WINDOW_SEC
                           IN /\ f.pc \in {"tpm_wait", "x_tpm_wait"} =>
                                    /\ seen.slept
                                    /\ f.wake = expiry
                              /\ f.pc \in {"send", "backoff_wait"} => now >= expiry

\* the request fits only once the second-oldest entry has left the window,
\* and the attempt has slept until then
C25_Witness ==
    /\ cc[1].pc = "send"
    /\ cc[1].tpm_seen # <<>>
    /\ cc[1].tpm_seen.slept
    /\ Len(cc[1].tpm_seen.kept) = 2
    /\ Fitting(SortedByTs(cc[1].tpm_seen.kept), cc[1].requested) = {2}
    /\ cc[1].tpm_seen.kept[1][1] < cc[1].tpm_seen.kept[2][1]

\* the least integer not below a / b
CeilDiv(a, b) == (a + b - 1) \div b

\* C26: the token figure passed to the token throttle before a send is
\* ceil((sum of the content lengths of the shaped messages + 20 per Turn)
\* / 4) plus the response cap in force for the attempt.
C26_TokenFigureIsCeiling ==
    \A c \in DOMAIN cc :
        LET f == cc[c]
        IN (~f.stream /\ f.pc = "send") =>
              f.requested =
                 CeilDiv(SumLen(f.messages) + 20 * Len(f.messages), 4) + f.max_tokens

\* the step is a send of caller c: a backend request with its outcome
Sent(c) ==
    /\ cc[c].pc = "send"
    /\ Len(cc'[c].outcomes) = Len(cc[c].outcomes) + 1

\* C27: a send that succeeds appends one entry to the request window and
\* one entry to the token window, whose weight is the total the backend
\* reported or, without one, the figure estimated before the call; a send
\* that fails, with a capacity-classified error or any other, leaves both
\* windows as they were.
C27_OnlySuccessIsRecorded ==
    [][\A c \in DOMAIN cc :
          Sent(c) =>
             LET f == cc'[c]
             IN IF f.outcomes[Len(f.outcomes)] = "ok"
                THEN /\ Len(request_timestamps') = Len(request_timestamps) + 1
                     /\ SubSeq(request_timestamps', 1, Len(request_timestamps)) = request_timestamps
                     /\ Len(token_timestamps') = Len(token_timestamps) + 1
                     /\ SubSeq(token_timestamps', 1, Len(token_timestamps)) = token_timestamps
                     /\ token_timestamps'[Len(token_timestamps')][2] =
                           IF f.usage > 0 THEN f.usage ELSE cc[c].requested
                ELSE /\ f.outcomes[Len(f.outcomes)] \in {"capacity", "other"}
                     /\ request_timestamps' = request_timestamps
                     /\ token_timestamps' = token_timestamps]_vars

\* a call whose first send failed on capacity and whose second succeeded
\* without reported usage: one entry in each window
C27_Witness ==
    /\ cc[1].pc = "returned"
    /\ cc[1].outcomes = <<"capacity", "ok">>
    /\ cc[1].usage = 0
    /\ Len(recorded) = 1
    /\ Len(request_timestamps) = 1
    /\ Len(token_timestamps) = 1
    /\ token_timestamps[1][2] = cc[1].requested

\* the step is a return of _throttle_if_needed to caller c, at once or
\* from a sleep that ended on time
RpmThrottleReturns(c) ==
    /\ cc'[c].pc = "tpm_check"
    /\ \/ cc[c].pc = "loop"
       \/ cc[c].pc = "rpm_wait" /\ now = cc[c].wake

\* the step is a return of _throttle_tokens_if_needed before a send
TpmThrottleReturns(c) ==
    /\ cc'[c].pc = "send"
    /\ \/ cc[c].pc = "tpm_check"
       \/ cc[c].pc = "tpm_wait" /\ now = cc[c].wake

\* C28: when a throttle check returns, its window holds no entry older than
\* now - window, whatever the limits are, a disabled limit included.
C28_WindowsEvictedAtReturn ==
    [][\A c \in DOMAIN cc :
          /\ RpmThrottleReturns(c) =>
                \A i \in DOMAIN request_timestamps' :
                    request_timestamps'[i] >= now - config.RPM_WINDOW_SEC
          /\ TpmThrottleReturns(c) =>
                \A i \in DOMAIN token_timestamps' :
                    token_timestamps'[i][1] >= now - config.TPM_WINDOW_SEC]_vars

----------------------------------------------------------------------------
(* The shaper across the attempts of a call                                 *)

\* C29: the shaper applied to its own output returns it unchanged, so the
\* list a chat_completion call sends is the same on every attempt: the
\* first attempt sends the shaped list (line 57), and each later attempt
\* sends what the shaper makes of it at line 120 and again at line 57.
C29_ShrinkIsIdempotent ==
    op = "shrink" =>
        /\ ShrinkMessages(shaped, config) = shaped
        /\ ShrinkMessages(ShrinkMessages(shaped, config), config) = shaped

\* a list the shaper changes: Turns dropped and the system Turn cut
C29_Witness ==
    /\ op = "shrink"
    /\ HasSystem(input)
    /\ Len(shaped) < Len(input)
    /\ shaped[1].len < input[1].len
    /\ shaped[1].len > 0

----------------------------------------------------------------------------
(* The backoff sleeps of an exhausted call                                  *)

\* C30: a backoff sleep is taken only when another send follows it: a
\* chat_completion call is never in a backoff sleep with no attempt left,
\* and a call that has exhausted its retries has slept
\* retry_max_attempts - 1 times.
C30_SleepOnlyIfAttemptsRemain ==
    \A c \in DOMAIN cc :
        LET f == cc[c]
        IN ~f.stream =>
            /\ f.pc \in {"x_tpm_check", "x_tpm_wait", "backoff_wait"} =>
                  f.attempt < config.OPENAI_RETRY_MAX_ATTEMPTS
            /\ (f.pc = "raised" /\ f.error.kind = "capacity") =>
                  Len(f.sleeps) = config.OPENAI_RETRY_MAX_ATTEMPTS - 1

----------------------------------------------------------------------------
(* The summary Turn under the count cap                                     *)

\* the Turns of a request that are not system Turns
RECURSIVE Conversation(_)
Conversation(messages) ==
    IF messages = <<>> THEN <<>>
    ELSE IF Head(messages).role = "system"
         THEN Conversation(Tail(messages))
         ELSE <<Head(messages)>> \o Conversation(Tail(messages))

\* the first request of the call in progress was cut by the count cap alone:
\* the summary is non-empty, everything would have fitted the character
\* budget, and an older Turn of the conversation is missing from the request
CutByCountCap ==
    /\ chat.pc = "invoke1"
    /\ summary # <<>>
    /\ BuildSystemPromptLen(conversation_history) + SUMMARY_HEADER_LEN
         + SegsLen(summary) + SumLen(conversation_history) <= config.MAX_PROMPT_CHARS
    /\ Len(Conversation(chat.messages)) < Len(conversation_history)

\* C31: whenever the summary is non-empty and shaping drops an older
\* conversation Turn from a request because of max_history_messages (the
\* character budget not exhausted), the request still contains the summary
\* Turn, immediately after the primary system Turn.
C31_SummarySurvivesCountCap ==
    CutByCountCap =>
        /\ Len(chat.messages) >= 2
        /\ chat.messages[1].role = "system"
        /\ chat.messages[2].role = "system"
        /\ chat.messages[2].src = Src(chats, 6)

----------------------------------------------------------------------------
(* The rolling summary                                                      *)

\* the step is the last step of a chat call that succeeds
ChatSucceeds ==
    /\ chat.pc \in {"invoke1", "invoke2"}
    /\ chat'.pc = "idle"
    /\ result' # <<>>
    /\ ~result'.error

\* C32: after any sequence of chat, stream_chat and
\* clear_conversation_history calls the rolling summary has at most
\* max_summary_chars (1200) characters, and it changes only in the last
\* step of a successful chat call.
C32_SummaryBoundedAndOwned ==
    [][/\ SegsLen(summary') <= MAX_SUMMARY_CHARS
       /\ summary' # summary => ChatSucceeds]_vars

\* the summary was cut to the bound by a chat call; a clear and a complete
\* stream_chat call have gone by since
C32_Witness ==
    /\ SegsLen(summary) = MAX_SUMMARY_CHARS
    /\ chats = 2
    /\ result # <<>>
    /\ "stopped" \in DOMAIN result
    /\ ~result.error /\ ~result.stopped
    /\ Len(conversation_history) = 2
    /\ conversation_history[1].src = Src(2, 1)

----------------------------------------------------------------------------
(* The state a complete stream_chat call leaves behind                      *)

\* a stream_chat call has just run to completion
StreamCompleted ==
    /\ result # <<>>
    /\ "stopped" \in DOMAIN result
    /\ ~result.error
    /\ ~result.stopped

\* C33: a stream_chat call that runs to completion appends the user Turn
\* and the final assistant Turn to history and then updates the rolling
\* summary with that exchange, as a successful chat call does.
C33_StreamUpdatesLikeChat ==
    StreamCompleted =>
        LET n == Len(conversation_history)
            assistant_len == FragmentsLen(result.call.full_response)
        IN /\ n = Len(result.call.before) + 2
           /\ conversation_history[n - 1].role = "user"
           /\ conversation_history[n - 1].src \in {Src(chats, 1), Src(chats, 2)}
           /\ conversation_history[n] =
                 [role |-> "assistant", src |-> Src(chats, 3), len |-> assistant_len]
           /\ summary # <<>>
           /\ summary[Len(summary)].ex = chats
           /\ summary[Len(summary)].to = EXCHANGE_WRAP_LEN + result.call.user + assistant_len

----------------------------------------------------------------------------
(* The retrieved context in the user Turn                                   *)

\* the user Turn of the call in progress in a message list
UserTurnOf(messages) ==
    LET at == { i \in 1..Len(messages) :
                  messages[i].src \in {Src(chats, 1), Src(chats, 2)} }
    IN messages[CHOOSE i \in at : TRUE]

\* the user Turn as the claim wants it, given the piece of the blocks held
Embeds(turn) ==
    IF chat.cut.to > chat.cut.from
    THEN /\ turn.role = "user"
         /\ turn.src = Src(chats, 2)
         /\ turn.len = CONTEXT_WRAP_LEN + SegLen(chat.cut) + chat.user
         /\ turn.len - CONTEXT_WRAP_LEN - chat.user <= config.RAG_CONTEXT_MAX_CHARS
         /\ chat.cut.from = 0
    ELSE turn = [role |-> "user", src |-> Src(chats, 1), len |-> chat.user]

\* the user Turn of the call in progress, where a message list holds it
EmbedsIn(messages) ==
    \A i \in 1..Len(messages) :
        messages[i].src \in {Src(chats, 1), Src(chats, 2)} => Embeds(messages[i])

\* C34: in every request built by chat or stream_chat the retrieved context
\* embedded in the user Turn has at most rag_context_max_chars characters
\* and is a prefix of the joined "Document i" blocks; when retrieval gives
\* no passages the user Turn is sent unchanged.
C34_ContextCappedPrefix ==
    /\ chat.pc \in {"invoke1", "dispatch", "invoke2", "s_wait", "s_yielded"} =>
          EmbedsIn(chat.messages)
    /\ (chat.pc \in {"invoke1", "invoke2", "s_wait"} /\ cc[1].pc \in {"send", "s_open"}) =>
          EmbedsIn(cc[1].messages)

\* a stream_chat request is about to be sent with a context that was cut
C34_Witness ==
    /\ chat.pc = "s_wait"
    /\ cc[1].pc = "s_open"
    /\ chat.cut = [from |-> 0, to |-> config.RAG_CONTEXT_MAX_CHARS]
    /\ UserTurnOf(cc[1].messages).len =
          CONTEXT_WRAP_LEN + config.RAG_CONTEXT_MAX_CHARS + chat.user

----------------------------------------------------------------------------
(* What conversation_history stores                                         *)

\* C36: conversation_history contains only Turns with role user or
\* assistant: the system Turn, the summary Turn, and the function-call and
\* function-result Turns of a round trip are never stored in it.
C36_HistoryHoldsOnlyDialogue ==
    \A i \in 1..Len(conversation_history) :
        /\ conversation_history[i].role \in {"user", "assistant"}
        /\ conversation_history[i].src % 10 \in {1, 2, 3}

\* a chat call with a summary Turn and a function round trip has committed
C36_Witness ==
    /\ chat.pc = "idle"
    /\ result # <<>>
    /\ "response" \in DOMAIN result
    /\ ~result.error
    /\ result.call.dispatches = 1
    /\ Len(result.call.invocations) = 2
    /\ LET sent == result.call.invocations[2].messages
       IN /\ \E i \in 1..Len(sent) : sent[i].src = Src(chats, 6)
          /\ \E i \in 1..Len(sent) : sent[i].role = "function"
          /\ \E i \in 1..Len(sent) : sent[i].src = Src(chats, 4)
    /\ Len(conversation_history) = 4

----------------------------------------------------------------------------
(* What a request carries after clear_conversation_history                  *)

\* the request an assistant without any earlier conversation builds for the
\* user Turn of the call in progress
FreshRequest ==
    LET user_turn == conversation_history[Len(conversation_history)]
    IN TrimMessages(<<[role |-> "system", src |-> 0,
                       len |-> BuildSystemPromptLen(<<user_turn>>)],
                      user_turn>>, config)

\* C37: after clear_conversation_history the next request contains nothing
\* derived from the Turns made before the clear: a chat call entered with
\* an empty history sends what an assistant without any earlier
\* conversation sends for the same user message.
C37_ClearedContentIsGone ==
    (chat.pc = "invoke1" /\ chat.before = <<>>) => chat.messages = FreshRequest

----------------------------------------------------------------------------
(* Two chat calls that interleave                                           *)

\* the call a stored Turn was written by
CallOf(turn) == turn.src \div 10

\* C38: when two chat calls on the same assistant interleave at their
\* await points, every assistant Turn in conversation_history is
\* immediately preceded by the user Turn of the same call, and the request
\* each call sends first ends with its own user Turn.
C38_ExchangesStayPaired ==
    /\ \A i \in 1..Len(conversation_history) :
          conversation_history[i].role = "assistant" =>
              /\ i > 1
              /\ conversation_history[i - 1].role = "user"
              /\ CallOf(conversation_history[i - 1]) = CallOf(conversation_history[i])
    /\ \A c \in DOMAIN chat :
          chat[c].pc = "invoke1" =>
              chat[c].messages[Len(chat[c].messages)].src = Src(c, 1)

----------------------------------------------------------------------------
(* Termination of chat                                                      *)

\* the longest backoff sleep of a call: retry_base_delay * 2^(attempts - 1)
LongestBackoff ==
    config.OPENAI_RETRY_BASE_DELAY_SEC * Pow2(Max(1, config.OPENAI_RETRY_MAX_ATTEMPTS) - 1)

\* what is left of the sleep of frame f is within the bound of its kind
SleepWithinBound(f) ==
    /\ f.pc = "rpm_wait" => f.wake - now <= config.RPM_WINDOW_SEC
    /\ f.pc \in {"tpm_wait", "x_tpm_wait"} => f.wake - now <= config.TPM_WINDOW_SEC
    /\ f.pc = "backoff_wait" => f.wake - now <= LongestBackoff

\* the sends of a chat_completion call and its sleeps stay within bounds
AttemptsAndSleepsBounded ==
    \A c \in DOMAIN cc :
        /\ Len(cc[c].outcomes) <= config.OPENAI_RETRY_MAX_ATTEMPTS
        /\ SleepWithinBound(cc[c])

\* C39: every chat call eventually returns a result, provided each backend
\* send, retrieval call and dispatched function returns or raises: a
\* chat_completion call performs at most retry_max_attempts sends, every
\* throttle sleep is at most one window long and every backoff sleep at
\* most retry_base_delay * 2^(retry_max_attempts - 1).
C39_ChatReturns ==
    /\ []AttemptsAndSleepsBounded
    /\ (chat.pc # "idle") ~> (chat.pc = "idle" /\ result # <<>>)

\* a chat call with a function round trip has returned its reply after
\* sleeping for three seconds or more
C39_Witness ==
    /\ chat.pc = "idle"
    /\ result # <<>>
    /\ ~result.error
    /\ result.call.dispatches = 1
    /\ now >= 3

----------------------------------------------------------------------------
(* The two shapers side by side                                             *)

\* C40: _trim_messages and _shrink_messages return the same output for
\* every input message list under the same configuration, so a request
\* shaped in chat and shaped again in chat_completion is the request
\* shaped once.
C40_ShapersAgree ==
    Shaped =>
        /\ shaped = TrimMessages(input, config)
        /\ shaped = ShrinkMessages(input, config)
        /\ ShrinkMessages(TrimMessages(input, config), config) = TrimMessages(input, config)

\* the client's shaper has dropped Turns over the count cap and cut the
\* system Turn, as the assistant's does for the same input
C40_Witness ==
    /\ op = "shrink"
    /\ HasSystem(input)
    /\ Len(InputHistory) > Max(1, Cap)
    /\ Len(ShapedHistory) = Max(1, Cap)
    /\ shaped[1].len > 0
    /\ shaped[1].len < input[1].len
    /\ shaped = TrimMessages(input, config)

====
